---- MODULE Spec2Model ----
(***************************************************************************)
(* A model of ValueControl (src/src/commonControls/ValueControl.ts) and of *)
(* the per-turn protocol that drives it: canHandle, handle, and the        *)
(* initiative phase, over a container holding two value controls.          *)
(***************************************************************************)
EXTENDS Integers, Sequences, FiniteSets, TLC

(***************************************************************************)
(* Bounds and vocabulary                                                   *)
(***************************************************************************)

\* Number of distinct slot values a user can say.
NumValues == 2

\* The JavaScript `undefined` of the string-typed fields and slots.
undefined == "undefined"

\* `undefined` for state.value / state.previousValue (values are 1..NumValues).
noValue == 0

Values == 1 .. NumValues

\* The controls of the tree, in child-registration order.
Controls == {1, 2}

\* $.Action.Set, $.Action.Change
ActionSet == "builtin_set"
ActionChange == "builtin_change"

\* Act class names.
ContentActs ==
    {"ValueSetAct", "ValueChangedAct", "InvalidValueAct", "ValueConfirmedAct",
     "ValueDisconfirmedAct"}

InitiativeActs == {"RequestValueAct", "RequestChangedValueAct", "ConfirmValueAct"}

\* The elicitation questions of a control.
ElicitationActs == {"RequestValueAct", "RequestChangedValueAct"}

\* The slot type both controls collect.
SlotType == "S"

(***************************************************************************)
(* Props (ValueControlProps after mergeWithDefaultProps)                   *)
(***************************************************************************)

\* A validation function: a name (its failure reason) deciding over the state.
\* "tooLarge" rejects values >= 2; "noMatch" rejects values that are not an
\* entity-resolution match.
ValidationFails(rule, value, erMatch) ==
    CASE rule = "tooLarge" -> value >= 2
      [] rule = "noMatch" -> erMatch = FALSE
      [] OTHER -> FALSE

ValidationProfiles == {<<>>, <<"noMatch", "tooLarge">>}

defaultProps ==
    [required |-> TRUE,
     validation |-> <<>>,
     confirmationRequired |-> FALSE,
     targets |-> {"builtin_it"},
     actionsSet |-> {ActionSet},
     actionsChange |-> {ActionChange},
     slotType |-> SlotType,
     customHandlingFuncs |-> <<>>]

\* The props the first control may be built with.
Props1 ==
    {[defaultProps EXCEPT !.required = r, !.confirmationRequired = c,
                          !.validation = v, !.targets = {"t1"}] :
        r \in BOOLEAN, c \in BOOLEAN, v \in ValidationProfiles}

\* The props the second control may be built with.
Props2 ==
    {[defaultProps EXCEPT !.required = r, !.confirmationRequired = c, !.targets = {"t2"}] :
        r \in BOOLEAN, c \in BOOLEAN}

(***************************************************************************)
(* Inputs (ControlInput, already resolved into intent and slots)           *)
(***************************************************************************)

\* Entity resolution of a spoken value: value 2 is a novel value (ER_NO_MATCH).
ErMatchOf(v) == v # 2

MkInput(intent, feedback, action, target, valueType, value) ==
    [intent |-> intent, feedback |-> feedback, action |-> action,
     target |-> target, valueType |-> valueType, value |-> value,
     erMatch |-> IF value = noValue THEN TRUE ELSE ErMatchOf(value)]

ValueIntentName(slotType) == slotType \o "_ValueControlIntent"

\* Inputs carrying a value slot: "set t1 to v", "set it to 1", "change t1 to v",
\* a bare "v", "set t2 to 1", and inputs no control of the tree accepts (a
\* foreign target, feedback without action, an empty value, another slot type).
ValueInputs ==
    {MkInput(ValueIntentName(SlotType), undefined, a, t, SlotType, v) :
        a \in {ActionSet, ActionChange}, t \in {"t1"}, v \in Values}
    \cup {MkInput(ValueIntentName(SlotType), undefined, undefined, undefined, SlotType, v) :
            v \in Values}
    \cup {MkInput(ValueIntentName(SlotType), undefined, ActionSet, undefined, SlotType, 1),
          MkInput(ValueIntentName(SlotType), undefined, ActionSet, "t2", SlotType, 1),
          MkInput(ValueIntentName(SlotType), undefined, ActionSet, "tOther", SlotType, 1),
          MkInput(ValueIntentName(SlotType), "builtin_affirm", undefined, undefined,
                  SlotType, 1),
          MkInput(ValueIntentName(SlotType), undefined, ActionSet, "t1", SlotType, noValue),
          MkInput(ValueIntentName("X"), undefined, ActionSet, "t1", "X", 1)}

\* "set t1", "change t1", "change it", and a general intent without action.
GeneralInputs ==
    {MkInput("GeneralControlIntent", undefined, ActionSet, "t1", undefined, noValue),
     MkInput("GeneralControlIntent", undefined, ActionChange, "t1", undefined, noValue),
     MkInput("GeneralControlIntent", undefined, ActionChange, undefined, undefined, noValue),
     MkInput("GeneralControlIntent", undefined, undefined, "t1", undefined, noValue)}

OtherInputs ==
    {MkInput(n, undefined, undefined, undefined, undefined, noValue) :
        n \in {"AMAZON.YesIntent", "AMAZON.NoIntent", "LaunchRequest"}}

Inputs == ValueInputs \cup GeneralInputs \cup OtherInputs

NoInput == MkInput("none", undefined, undefined, undefined, undefined, noValue)

(***************************************************************************)
(* InputUtil, Predicates, Validation, ControlResultBuilder                 *)
(***************************************************************************)

isIntent(input, intentName) == input.intent = intentName

isBareYes(input) == isIntent(input, "AMAZON.YesIntent")

isBareNo(input) == isIntent(input, "AMAZON.NoIntent")

targetIsMatchOrUndefined(target, targets) == target = undefined \/ target \in targets

targetIsUndefined(target) == target = undefined

valueTypeMatch(valueType, slotType) == valueType = slotType

valueStrDefined(valueStr) == valueStr # noValue

feedbackIsMatchOrUndefined(feedback, feedbacks) ==
    feedback = undefined \/ feedback \in feedbacks

feedbackIsUndefined(feedback) == feedback = undefined

actionIsMatch(action, actions) == action # undefined /\ action \in actions

actionIsUndefined(action) == action = undefined

\* Whether the input carries a resolved value slot (getValueResolution needs one).
hasValueResolution(input) == input.value # noValue

BoolStr(b) == IF b THEN "true" ELSE "false"

\* evaluateValidationProp: the validation functions in order; "true" when all
\* pass, and otherwise the reason of the first one that fails.
evaluateValidationProp(validation, ctl) ==
    LET failing == {i \in 1 .. Len(validation) :
                        ValidationFails(validation[i], ctl.value, ctl.erMatch = "true")}
    IN  IF failing = {} THEN "true"
        ELSE validation[CHOOSE i \in failing : \A j \in failing : i <= j]

evaluateBooleanProp(prop) == prop

Act(kind, id, value, previousValue, reason) ==
    [kind |-> kind, control |-> id, value |-> value,
     previousValue |-> previousValue, reason |-> reason]

addAct(acts, act) == Append(acts, act)

hasInitiativeAct(acts) == \E i \in 1 .. Len(acts) : acts[i].kind \in InitiativeActs

\* ControlResult.sessionBehavior of the result built from acts.  A result that
\* holds only a ValueSetAct is OPEN, as is one with an initiative act: no
\* operation of ValueControl ends the session.
sessionBehavior(acts) == "OPEN"

(***************************************************************************)
(* ValueControl: state                                                     *)
(***************************************************************************)

\* new ValueControlState(): only isValueConfirmed has an initializer.
ValueControlState ==
    [value |-> noValue,
     erMatch |-> undefined,
     elicitationAction |-> undefined,
     isValueConfirmed |-> FALSE,
     previousValue |-> noValue,
     lastInitiative |-> [present |-> FALSE, actName |-> undefined]]

\* The fields of ControlState (what is serialized between turns).
StateFields ==
    {"value", "erMatch", "elicitationAction", "isValueConfirmed", "previousValue",
     "lastInitiative"}

StateOf(ctl) == [f \in StateFields |-> ctl[f]]

\* A control as the constructor leaves it: state.lastInitiative = {}, and
\* handleFunc / initiativeFunc not set.  validatedWithoutValue is a history
\* field: validation was evaluated while state.value was undefined.
NewValueControl ==
    [value |-> ValueControlState.value,
     erMatch |-> ValueControlState.erMatch,
     elicitationAction |-> ValueControlState.elicitationAction,
     isValueConfirmed |-> ValueControlState.isValueConfirmed,
     previousValue |-> ValueControlState.previousValue,
     lastInitiative |-> [present |-> TRUE, actName |-> undefined],
     handleFunc |-> undefined,
     initiativeFunc |-> undefined,
     validatedWithoutValue |-> FALSE]

\* The result of an operation: the control after it, the acts of the result
\* builder after it, and whether it threw.
Outcome(ctl, acts, threw) == [ctl |-> ctl, acts |-> acts, threw |-> threw]

\* The result of a predicate-like operation: its boolean, the control after it
\* (handleFunc / initiativeFunc are set as a side effect), whether it threw.
Decision(ret, ctl, threw) == [ret |-> ret, ctl |-> ctl, threw |-> threw]

(***************************************************************************)
(* ValueControl: the built-in input handlers                               *)
(***************************************************************************)

isValueControlIntent(p, input) == isIntent(input, ValueIntentName(p.slotType))

\* Mutant: "set" with a value is accepted whatever target the input names.
isSetWithValue_IgnoresTarget(ctl, p, input) ==
    /\ isValueControlIntent(p, input)
    /\ valueTypeMatch(input.valueType, p.slotType)
    /\ valueStrDefined(input.value)
    /\ feedbackIsMatchOrUndefined(input.feedback, {"builtin_affirm", "builtin_disaffirm"})
    /\ actionIsMatch(input.action, p.actionsSet)

isSetWithValue(ctl, p, input) ==
    /\ isValueControlIntent(p, input)
    /\ targetIsMatchOrUndefined(input.target, p.targets)
    /\ valueTypeMatch(input.valueType, p.slotType)
    /\ valueStrDefined(input.value)
    /\ feedbackIsMatchOrUndefined(input.feedback, {"builtin_affirm", "builtin_disaffirm"})
    /\ actionIsMatch(input.action, p.actionsSet)

isSetWithoutValue(ctl, p, input) ==
    /\ isIntent(input, "GeneralControlIntent")
    /\ targetIsMatchOrUndefined(input.target, p.targets)
    /\ feedbackIsMatchOrUndefined(input.feedback, {"builtin_affirm", "builtin_disaffirm"})
    /\ actionIsMatch(input.action, p.actionsSet)

isChangeWithValue(ctl, p, input) ==
    /\ isValueControlIntent(p, input)
    /\ targetIsMatchOrUndefined(input.target, p.targets)
    /\ valueTypeMatch(input.valueType, p.slotType)
    /\ valueStrDefined(input.value)
    /\ feedbackIsMatchOrUndefined(input.feedback, {"builtin_affirm", "builtin_disaffirm"})
    /\ actionIsMatch(input.action, p.actionsChange)

isChangeWithoutValue(ctl, p, input) ==
    /\ isIntent(input, "GeneralControlIntent")
    /\ targetIsMatchOrUndefined(input.target, p.targets)
    /\ feedbackIsMatchOrUndefined(input.feedback, {"builtin_affirm", "builtin_disaffirm"})
    /\ actionIsMatch(input.action, p.actionsChange)

\* Mutant: a value is taken as bare whatever action the input names.
isBareValue_IgnoresAction(ctl, p, input) ==
    /\ isValueControlIntent(p, input)
    /\ feedbackIsUndefined(input.feedback)
    /\ valueStrDefined(input.value)
    /\ valueTypeMatch(input.valueType, p.slotType)

isBareValue(ctl, p, input) ==
    /\ isValueControlIntent(p, input)
    /\ feedbackIsUndefined(input.feedback)
    /\ actionIsUndefined(input.action)
    /\ targetIsUndefined(input.target)
    /\ valueStrDefined(input.value)
    /\ valueTypeMatch(input.valueType, p.slotType)

\* Reading this.state.lastInitiative.actName when state.lastInitiative is not
\* there is a TypeError, which falseIfGuardFailed rethrows.
isConfirmationAffirmedThrows(ctl, p, input) ==
    isBareYes(input) /\ ~ctl.lastInitiative.present

isConfirmationAffirmed(ctl, p, input) ==
    /\ isBareYes(input)
    /\ ctl.lastInitiative.present
    /\ ctl.lastInitiative.actName = "ConfirmValueAct"

isConfirmationDisaffirmedThrows(ctl, p, input) ==
    isBareNo(input) /\ ~ctl.lastInitiative.present

isConfirmationDisaffirmed(ctl, p, input) ==
    /\ isBareNo(input)
    /\ ctl.lastInitiative.present
    /\ ctl.lastInitiative.actName = "ConfirmValueAct"

\* The names of the built-in handlers, in registration order.
standardInputHandlers ==
    <<"SetWithValue", "ChangeWithValue", "SetWithoutValue", "ChangeWithoutValue",
      "BareValue", "ConfirmationAffirmed", "ConfirmationDisaffirmed">>

\* The handle function registered with each handler name.
HandleOf(name) ==
    CASE name = "SetWithValue" -> "handleSetWithValue"
      [] name = "ChangeWithValue" -> "handleChangeWithValue"
      [] name = "SetWithoutValue" -> "handleSetWithoutValue"
      [] name = "ChangeWithoutValue" -> "handleChangeWithoutValue"
      [] name = "BareValue" -> "handleBareValue"
      [] name = "ConfirmationAffirmed" -> "handleConfirmationAffirmed"
      [] name = "ConfirmationDisaffirmed" -> "handleConfirmationDisaffirmed"
      [] name = "SetValue" -> "handleSetValue"
      [] name = "Exception generating handler" -> "handleSyntheticError"

\* canHandle of the custom handler "SetValue": any value intent of the slot type.
isSetValue(ctl, p, input) == isValueControlIntent(p, input)

HandlerCanHandle(name, ctl, p, input) ==
    CASE name = "SetWithValue" -> isSetWithValue(ctl, p, input)
      [] name = "ChangeWithValue" -> isChangeWithValue(ctl, p, input)
      [] name = "SetWithoutValue" -> isSetWithoutValue(ctl, p, input)
      [] name = "ChangeWithoutValue" -> isChangeWithoutValue(ctl, p, input)
      [] name = "BareValue" -> isBareValue(ctl, p, input)
      [] name = "ConfirmationAffirmed" -> isConfirmationAffirmed(ctl, p, input)
      [] name = "ConfirmationDisaffirmed" -> isConfirmationDisaffirmed(ctl, p, input)
      [] name = "SetValue" -> isSetValue(ctl, p, input)
      [] name = "Exception generating handler" -> TRUE

HandlerCanHandleThrows(name, ctl, p, input) ==
    CASE name = "ConfirmationAffirmed" -> isConfirmationAffirmedThrows(ctl, p, input)
      [] name = "ConfirmationDisaffirmed" -> isConfirmationDisaffirmedThrows(ctl, p, input)
      [] OTHER -> FALSE

MinOf(S) == CHOOSE i \in S : \A j \in S : i <= j

MaxOf(S) == CHOOSE i \in S : \A j \in S : j <= i

\* Mutant: the custom handlers are evaluated before the built-in ones.
evaluateInputHandlers_CustomFirst(ctl, p, input) ==
    LET handlers == p.customHandlingFuncs \o standardInputHandlers
        throwing == {i \in 1 .. Len(handlers) :
                        HandlerCanHandleThrows(handlers[i], ctl, p, input)}
        upTo == IF throwing = {} THEN Len(handlers) ELSE MinOf(throwing) - 1
        matches == {i \in 1 .. upTo : HandlerCanHandle(handlers[i], ctl, p, input)}
    IN  IF throwing # {}
        THEN Decision(FALSE,
                      IF matches = {} THEN ctl
                      ELSE [ctl EXCEPT !.handleFunc = HandleOf(handlers[MaxOf(matches)])],
                      TRUE)
        ELSE IF matches = {} THEN Decision(FALSE, ctl, FALSE)
        ELSE Decision(TRUE,
                      [ctl EXCEPT !.handleFunc = HandleOf(handlers[MinOf(matches)])],
                      FALSE)

\* evaluateInputHandlers: every handler's predicate is evaluated in order; the
\* handle function of the first match is selected.  A predicate that throws ends
\* the evaluation, leaving handleFunc as the last matching predicate set it.
evaluateInputHandlers(ctl, p, input) ==
    LET handlers == standardInputHandlers \o p.customHandlingFuncs
        throwing == {i \in 1 .. Len(handlers) :
                        HandlerCanHandleThrows(handlers[i], ctl, p, input)}
        upTo == IF throwing = {} THEN Len(handlers) ELSE MinOf(throwing) - 1
        matches == {i \in 1 .. upTo : HandlerCanHandle(handlers[i], ctl, p, input)}
    IN  IF throwing # {}
        THEN Decision(FALSE,
                      IF matches = {} THEN ctl
                      ELSE [ctl EXCEPT !.handleFunc = HandleOf(handlers[MaxOf(matches)])],
                      TRUE)
        ELSE IF matches = {} THEN Decision(FALSE, ctl, FALSE)
        ELSE Decision(TRUE,
                      [ctl EXCEPT !.handleFunc = HandleOf(handlers[MinOf(matches)])],
                      FALSE)

\* The error diagnostics evaluateInputHandlers logs: when more than one handler
\* matched, one diagnostic listing the names of the matching handlers in order.
evaluateInputHandlersLog(ctl, p, input) ==
    LET handlers == standardInputHandlers \o p.customHandlingFuncs
        throws == \E i \in 1 .. Len(handlers) :
                     HandlerCanHandleThrows(handlers[i], ctl, p, input)
        matching == SelectSeq(handlers, LAMBDA n : HandlerCanHandle(n, ctl, p, input))
    IN  IF ~throws /\ Len(matching) > 1 THEN <<matching>> ELSE <<>>

\* Mutant: accepting a bare yes already consumes the pending confirmation.
canHandle_ConsumesConfirmation(ctl, p, input) ==
    LET d == evaluateInputHandlers(ctl, p, input)
    IN  IF d.ret /\ d.ctl.handleFunc = "handleConfirmationAffirmed"
        THEN Decision(TRUE, [d.ctl EXCEPT !.lastInitiative.actName = undefined], FALSE)
        ELSE d

canHandle(ctl, p, input) == evaluateInputHandlers(ctl, p, input)

(***************************************************************************)
(* ValueControl: setValue, validation, elicitation                         *)
(***************************************************************************)

\* Mutant: setValue that leaves the confirmation flag as it was.
setValue_KeepsConfirmation(ctl, value, erMatch) ==
    [ctl EXCEPT !.previousValue = ctl.value,
                !.value = value,
                !.erMatch = BoolStr(erMatch)]

setValue(ctl, value, erMatch) ==
    [ctl EXCEPT !.previousValue = ctl.value,
                !.value = value,
                !.erMatch = BoolStr(erMatch),
                !.isValueConfirmed = FALSE]

clear(ctl) ==
    [ctl EXCEPT !.value = ValueControlState.value,
                !.erMatch = ValueControlState.erMatch,
                !.elicitationAction = ValueControlState.elicitationAction,
                !.isValueConfirmed = ValueControlState.isValueConfirmed,
                !.previousValue = ValueControlState.previousValue,
                !.lastInitiative = ValueControlState.lastInitiative]

\* Mutant: the question is asked without recording its elicitation action.
askElicitationQuestion_ForgetsAction(ctl, id, acts, elicitationAction) ==
    CASE elicitationAction = ActionSet ->
            Outcome(ctl, addAct(acts, Act("RequestValueAct", id, noValue, noValue, undefined)),
                    FALSE)
      [] elicitationAction = ActionChange ->
            Outcome(ctl,
                    addAct(acts, Act("RequestChangedValueAct", id, ctl.value, noValue,
                                     undefined)),
                    FALSE)
      [] OTHER -> Outcome(ctl, acts, TRUE)

askElicitationQuestion(ctl, id, acts, elicitationAction) ==
    LET c1 == [ctl EXCEPT !.elicitationAction = elicitationAction]
    IN  CASE elicitationAction = ActionSet ->
                Outcome(c1, addAct(acts, Act("RequestValueAct", id, noValue, noValue, undefined)),
                        FALSE)
          [] elicitationAction = ActionChange ->
                Outcome(c1,
                        addAct(acts, Act("RequestChangedValueAct", id, c1.value, noValue,
                                         undefined)),
                        FALSE)
          [] OTHER -> Outcome(c1, acts, TRUE)

\* The validation props are evaluated over this.state.
Validate(ctl, p) ==
    [result |-> evaluateValidationProp(p.validation, ctl),
     ctl |-> [ctl EXCEPT !.validatedWithoutValue = @ \/ ctl.value = noValue]]

\* Mutant: a successful change emits ValueChangedAct without looking at
\* previousValue.
validateAndAddActs_NoPreviousCheck(ctl, id, p, acts, elicitationAction) ==
    LET c1 == [ctl EXCEPT !.elicitationAction = elicitationAction]
        v == Validate(c1, p)
        c2 == v.ctl
    IN  IF v.result = "true"
        THEN Outcome(c2,
                     addAct(acts,
                            IF elicitationAction = ActionChange
                            THEN Act("ValueChangedAct", id, c2.value, c2.previousValue,
                                     undefined)
                            ELSE Act("ValueSetAct", id, c2.value, noValue, undefined)),
                     FALSE)
        ELSE askElicitationQuestion(
                 c2, id,
                 addAct(acts, Act("InvalidValueAct", id, c2.value, noValue, v.result)),
                 elicitationAction)

\* Mutant: a rejected value is always re-elicited as a "set".
validateAndAddActs_ReasksSet(ctl, id, p, acts, elicitationAction) ==
    LET c1 == [ctl EXCEPT !.elicitationAction = elicitationAction]
        v == Validate(c1, p)
        c2 == v.ctl
    IN  IF v.result = "true"
        THEN IF elicitationAction = ActionChange
             THEN IF c2.previousValue # noValue
                  THEN Outcome(c2,
                               addAct(acts, Act("ValueChangedAct", id, c2.value,
                                                c2.previousValue, undefined)),
                               FALSE)
                  ELSE Outcome(c2, acts, TRUE)
             ELSE Outcome(c2,
                          addAct(acts, Act("ValueSetAct", id, c2.value, noValue, undefined)),
                          FALSE)
        ELSE askElicitationQuestion(
                 c2, id,
                 addAct(acts, Act("InvalidValueAct", id, c2.value, noValue, v.result)),
                 ActionSet)

\* Mutant: an accepted value is always reported with ValueSetAct.
validateAndAddActs_AlwaysValueSet(ctl, id, p, acts, elicitationAction) ==
    LET c1 == [ctl EXCEPT !.elicitationAction = elicitationAction]
        v == Validate(c1, p)
    IN  IF v.result = "true"
        THEN Outcome(v.ctl,
                     addAct(acts, Act("ValueSetAct", id, v.ctl.value, noValue, undefined)),
                     FALSE)
        ELSE askElicitationQuestion(
                 v.ctl, id,
                 addAct(acts, Act("InvalidValueAct", id, v.ctl.value, noValue, v.result)),
                 elicitationAction)

validateAndAddActs(ctl, id, p, acts, elicitationAction) ==
    LET c1 == [ctl EXCEPT !.elicitationAction = elicitationAction]
        v == Validate(c1, p)
        c2 == v.ctl
    IN  IF v.result = "true"
        THEN IF elicitationAction = ActionChange
             THEN IF c2.previousValue # noValue
                  THEN Outcome(c2,
                               addAct(acts, Act("ValueChangedAct", id, c2.value,
                                                c2.previousValue, undefined)),
                               FALSE)
                  ELSE Outcome(c2, acts, TRUE)
             ELSE Outcome(c2,
                          addAct(acts, Act("ValueSetAct", id, c2.value, noValue, undefined)),
                          FALSE)
        ELSE askElicitationQuestion(
                 c2, id,
                 addAct(acts, Act("InvalidValueAct", id, c2.value, noValue, v.result)),
                 elicitationAction)

(***************************************************************************)
(* ValueControl: the handle functions                                      *)
(***************************************************************************)

\* Mutant: the value is validated first and stored only when accepted.
handleSetWithValue_StoresOnlyAccepted(ctl, id, p, input, acts) ==
    IF ~hasValueResolution(input) THEN Outcome(ctl, acts, TRUE)
    ELSE LET o == validateAndAddActs(setValue(ctl, input.value, input.erMatch), id, p, acts,
                                     ActionSet)
         IN  IF hasInitiativeAct(o.acts)
             THEN Outcome([o.ctl EXCEPT !.value = ctl.value,
                                        !.previousValue = ctl.previousValue,
                                        !.erMatch = ctl.erMatch],
                          o.acts, o.threw)
             ELSE o

\* InputUtil.getValueResolution reads the value slot of the intent: without one
\* it throws before anything is stored.
handleSetWithValue(ctl, id, p, input, acts) ==
    IF ~hasValueResolution(input) THEN Outcome(ctl, acts, TRUE)
    ELSE validateAndAddActs(setValue(ctl, input.value, input.erMatch), id, p, acts,
                            ActionSet)

handleSetWithoutValue(ctl, id, p, input, acts) ==
    askElicitationQuestion(ctl, id, acts, ActionSet)

handleChangeWithValue(ctl, id, p, input, acts) ==
    IF ~hasValueResolution(input) THEN Outcome(ctl, acts, TRUE)
    ELSE validateAndAddActs(setValue(ctl, input.value, input.erMatch), id, p, acts,
                            ActionChange)

handleChangeWithoutValue(ctl, id, p, input, acts) ==
    askElicitationQuestion(ctl, id, acts, ActionChange)

\* Mutant: a bare value is always taken as a "set".
handleBareValue_AlwaysSet(ctl, id, p, input, acts) ==
    IF ~hasValueResolution(input) THEN Outcome(ctl, acts, TRUE)
    ELSE validateAndAddActs(setValue(ctl, input.value, input.erMatch), id, p, acts,
                            ActionSet)

handleBareValue(ctl, id, p, input, acts) ==
    IF ~hasValueResolution(input) THEN Outcome(ctl, acts, TRUE)
    ELSE LET c1 == setValue(ctl, input.value, input.erMatch)
         IN  validateAndAddActs(c1, id, p, acts,
                                IF c1.elicitationAction # undefined
                                THEN c1.elicitationAction ELSE ActionSet)

\* Mutant: the affirmation leaves the pending confirmation question in place.
handleConfirmationAffirmed_KeepsQuestion(ctl, id, p, input, acts) ==
    IF ~ctl.lastInitiative.present THEN Outcome(ctl, acts, TRUE)
    ELSE Outcome([ctl EXCEPT !.isValueConfirmed = TRUE],
                 addAct(acts, Act("ValueConfirmedAct", id, ctl.value, noValue, undefined)),
                 FALSE)

\* Mutant: the affirmation is acknowledged and the value is not marked
\* confirmed.
handleConfirmationAffirmed_DoesNotConfirm(ctl, id, p, input, acts) ==
    IF ~ctl.lastInitiative.present THEN Outcome(ctl, acts, TRUE)
    ELSE Outcome([ctl EXCEPT !.lastInitiative.actName = undefined],
                 addAct(acts, Act("ValueConfirmedAct", id, ctl.value, noValue, undefined)),
                 FALSE)

\* Mutant: the affirmed value is stored again through setValue before it is
\* marked confirmed.
handleConfirmationAffirmed_ViaSetValue(ctl, id, p, input, acts) ==
    IF ~ctl.lastInitiative.present THEN Outcome(ctl, acts, TRUE)
    ELSE Outcome([setValue(ctl, ctl.value, ctl.erMatch = "true")
                     EXCEPT !.lastInitiative.actName = undefined,
                            !.isValueConfirmed = TRUE],
                 addAct(acts, Act("ValueConfirmedAct", id, ctl.value, noValue, undefined)),
                 FALSE)

handleConfirmationAffirmed(ctl, id, p, input, acts) ==
    IF ~ctl.lastInitiative.present THEN Outcome(ctl, acts, TRUE)
    ELSE Outcome([ctl EXCEPT !.lastInitiative.actName = undefined,
                             !.isValueConfirmed = TRUE],
                 addAct(acts, Act("ValueConfirmedAct", id, ctl.value, noValue, undefined)),
                 FALSE)

\* Mutant: the disconfirmation is acknowledged and nothing is asked.
handleConfirmationDisaffirmed_OnlyDisconfirms(ctl, id, p, input, acts) ==
    LET c1 == [ctl EXCEPT !.isValueConfirmed = FALSE]
    IN  IF ~ctl.lastInitiative.present THEN Outcome(c1, acts, TRUE)
        ELSE Outcome([c1 EXCEPT !.lastInitiative.actName = undefined],
                     addAct(acts, Act("ValueDisconfirmedAct", id, ctl.value, noValue,
                                      undefined)),
                     FALSE)

\* Mutant: the value is asked for before the disconfirmation is acknowledged.
handleConfirmationDisaffirmed_AsksFirst(ctl, id, p, input, acts) ==
    LET c1 == [ctl EXCEPT !.isValueConfirmed = FALSE]
    IN  IF ~ctl.lastInitiative.present THEN Outcome(c1, acts, TRUE)
        ELSE Outcome([c1 EXCEPT !.lastInitiative.actName = undefined],
                     addAct(addAct(acts, Act("RequestValueAct", id, noValue, noValue,
                                             undefined)),
                            Act("ValueDisconfirmedAct", id, ctl.value, noValue, undefined)),
                     FALSE)

handleConfirmationDisaffirmed(ctl, id, p, input, acts) ==
    LET c1 == [ctl EXCEPT !.isValueConfirmed = FALSE]
    IN  IF ~ctl.lastInitiative.present THEN Outcome(c1, acts, TRUE)
        ELSE Outcome([c1 EXCEPT !.lastInitiative.actName = undefined],
                     addAct(addAct(acts, Act("ValueDisconfirmedAct", id, ctl.value, noValue,
                                             undefined)),
                            Act("RequestValueAct", id, noValue, noValue, undefined)),
                     FALSE)

\* handle of the custom handler "SetValue": stores values[0].slotValue, adds no
\* act; an intent without a value slot has no values[0].
handleSetValue(ctl, id, p, input, acts) ==
    IF ~hasValueResolution(input) THEN Outcome(ctl, acts, TRUE)
    ELSE Outcome(setValue(ctl, input.value, TRUE), acts, FALSE)

\* handle of the custom handler "Exception generating handler".
handleSyntheticError(ctl, id, p, input, acts) == Outcome(ctl, acts, TRUE)

\* this.handleFunc(input, resultBuilder)
CallHandleFunc(ctl, id, p, input, acts) ==
    CASE ctl.handleFunc = "handleSetWithValue" -> handleSetWithValue(ctl, id, p, input, acts)
      [] ctl.handleFunc = "handleSetWithoutValue" ->
            handleSetWithoutValue(ctl, id, p, input, acts)
      [] ctl.handleFunc = "handleChangeWithValue" ->
            handleChangeWithValue(ctl, id, p, input, acts)
      [] ctl.handleFunc = "handleChangeWithoutValue" ->
            handleChangeWithoutValue(ctl, id, p, input, acts)
      [] ctl.handleFunc = "handleBareValue" -> handleBareValue(ctl, id, p, input, acts)
      [] ctl.handleFunc = "handleConfirmationAffirmed" ->
            handleConfirmationAffirmed(ctl, id, p, input, acts)
      [] ctl.handleFunc = "handleConfirmationDisaffirmed" ->
            handleConfirmationDisaffirmed(ctl, id, p, input, acts)
      [] ctl.handleFunc = "handleSetValue" -> handleSetValue(ctl, id, p, input, acts)
      [] ctl.handleFunc = "handleSyntheticError" ->
            handleSyntheticError(ctl, id, p, input, acts)

(***************************************************************************)
(* ValueControl: initiative                                                *)
(***************************************************************************)

wantsToConfirmValue(ctl, p) ==
    /\ ctl.value # noValue
    /\ ctl.isValueConfirmed = FALSE
    /\ evaluateBooleanProp(p.confirmationRequired)

confirmValue(ctl, id, p, acts) ==
    IF ~ctl.lastInitiative.present THEN Outcome(ctl, acts, TRUE)
    ELSE Outcome([ctl EXCEPT !.lastInitiative.actName = "ConfirmValueAct"],
                 addAct(acts, Act("ConfirmValueAct", id, ctl.value, noValue, undefined)),
                 FALSE)

\* The validation props are evaluated only when the value is defined (&&).
wantsToFixInvalidValue(ctl, p) ==
    /\ ctl.value # noValue
    /\ Validate(ctl, p).result # "true"

fixInvalidValue(ctl, id, p, acts) == validateAndAddActs(ctl, id, p, acts, ActionChange)

\* Mutant: the test on the value is inverted.
wantsToElicitValue_Inverted(ctl, p) ==
    /\ ctl.value # noValue
    /\ evaluateBooleanProp(p.required)

wantsToElicitValue(ctl, p) ==
    /\ ctl.value = noValue
    /\ evaluateBooleanProp(p.required)

elicitValue(ctl, id, p, acts) == askElicitationQuestion(ctl, id, acts, ActionSet)

\* wantsToConfirmValue || wantsToFixInvalidValue || wantsToElicitValue, each
\* setting this.initiativeFunc when it answers true.
\* Mutant: a control that wants to elicit already records the elicitation.
canTakeInitiative_RecordsElicitation(ctl, p) ==
    IF wantsToConfirmValue(ctl, p)
    THEN Decision(TRUE, [ctl EXCEPT !.initiativeFunc = "confirmValue"], FALSE)
    ELSE IF wantsToFixInvalidValue(ctl, p)
    THEN Decision(TRUE, [ctl EXCEPT !.initiativeFunc = "fixInvalidValue"], FALSE)
    ELSE IF wantsToElicitValue(ctl, p)
    THEN Decision(TRUE, [ctl EXCEPT !.initiativeFunc = "elicitValue",
                                    !.elicitationAction = ActionSet], FALSE)
    ELSE Decision(FALSE, ctl, FALSE)

\* Mutant: the invalid value is looked at before the confirmation.
canTakeInitiative_FixBeforeConfirm(ctl, p) ==
    IF wantsToFixInvalidValue(ctl, p)
    THEN Decision(TRUE, [ctl EXCEPT !.initiativeFunc = "fixInvalidValue"], FALSE)
    ELSE IF wantsToConfirmValue(ctl, p)
    THEN Decision(TRUE, [ctl EXCEPT !.initiativeFunc = "confirmValue"], FALSE)
    ELSE IF wantsToElicitValue(ctl, p)
    THEN Decision(TRUE, [ctl EXCEPT !.initiativeFunc = "elicitValue"], FALSE)
    ELSE Decision(FALSE, ctl, FALSE)

canTakeInitiative(ctl, p) ==
    IF wantsToConfirmValue(ctl, p)
    THEN Decision(TRUE, [ctl EXCEPT !.initiativeFunc = "confirmValue"], FALSE)
    ELSE IF wantsToFixInvalidValue(ctl, p)
    THEN Decision(TRUE, [ctl EXCEPT !.initiativeFunc = "fixInvalidValue"], FALSE)
    ELSE IF wantsToElicitValue(ctl, p)
    THEN Decision(TRUE, [ctl EXCEPT !.initiativeFunc = "elicitValue"], FALSE)
    ELSE Decision(FALSE, ctl, FALSE)

takeInitiative(ctl, id, p, acts) ==
    CASE ctl.initiativeFunc = undefined -> Outcome(ctl, acts, TRUE)
      [] ctl.initiativeFunc = "confirmValue" -> confirmValue(ctl, id, p, acts)
      [] ctl.initiativeFunc = "fixInvalidValue" -> fixInvalidValue(ctl, id, p, acts)
      [] ctl.initiativeFunc = "elicitValue" -> elicitValue(ctl, id, p, acts)

(***************************************************************************)
(* ValueControl: handle                                                    *)
(***************************************************************************)

\* Mutant: handle takes initiative without asking the result builder first.
handle_NoInitiativeCheck(ctl, id, p, input, acts) ==
    IF ctl.handleFunc = undefined THEN Outcome(ctl, acts, TRUE)
    ELSE LET h == CallHandleFunc(ctl, id, p, input, acts)
         IN  IF h.threw THEN h
             ELSE LET d == canTakeInitiative(h.ctl, p)
                  IN  IF d.ret THEN takeInitiative(d.ctl, id, p, h.acts)
                      ELSE Outcome(d.ctl, h.acts, FALSE)

\* Mutant: handle leaves all initiative to the walk over the tree.
handle_LeavesInitiativeToWalk(ctl, id, p, input, acts) ==
    IF ctl.handleFunc = undefined THEN Outcome(ctl, acts, TRUE)
    ELSE CallHandleFunc(ctl, id, p, input, acts)

\* Mutant: handle logs and returns when no handler was selected.
handle_SilentReturn(ctl, id, p, input, acts) ==
    IF ctl.handleFunc = undefined THEN Outcome(ctl, acts, FALSE)
    ELSE LET h == CallHandleFunc(ctl, id, p, input, acts)
         IN  IF h.threw THEN h
             ELSE IF hasInitiativeAct(h.acts) THEN h
             ELSE LET d == canTakeInitiative(h.ctl, p)
                  IN  IF d.ret THEN takeInitiative(d.ctl, id, p, h.acts)
                      ELSE Outcome(d.ctl, h.acts, FALSE)

handle(ctl, id, p, input, acts) ==
    IF ctl.handleFunc = undefined THEN Outcome(ctl, acts, TRUE)
    ELSE LET h == CallHandleFunc(ctl, id, p, input, acts)
         IN  IF h.threw THEN h
             ELSE IF hasInitiativeAct(h.acts) THEN h
             ELSE LET d == canTakeInitiative(h.ctl, p)
                  IN  IF d.ret THEN takeInitiative(d.ctl, id, p, h.acts)
                      ELSE Outcome(d.ctl, h.acts, FALSE)

(***************************************************************************)
(* ValueControl: renderAct                                                 *)
(***************************************************************************)

\* A ControlResponseBuilder: the prompt fragments, the reprompt fragments and
\* the directives added so far.
ResponseBuilder(promptFragments, repromptFragments, directives) ==
    [promptFragments |-> promptFragments, repromptFragments |-> repromptFragments,
     directives |-> directives]

NewResponseBuilder == ResponseBuilder(<<>>, <<>>, <<>>)

\* The key of props.prompts / props.reprompts under which an act kind is
\* configured.
PromptKey(kind) ==
    CASE kind = "InvalidValueAct" -> "invalidValue"
      [] kind = "ValueSetAct" -> "valueSet"
      [] kind = "ValueChangedAct" -> "valueChanged"
      [] kind = "RequestValueAct" -> "requestValue"
      [] kind = "RequestChangedValueAct" -> "requestChangedValue"
      [] kind = "ConfirmValueAct" -> "confirmValue"
      [] kind = "ValueConfirmedAct" -> "valueConfirmed"
      [] kind = "ValueDisconfirmedAct" -> "valueDisconfirmed"

\* evaluatePromptProp of a prompt / reprompt prop: the fragment configured
\* under the key.
evaluatePromptProp(group, key) == group \o "." \o key

\* The elicit-slot directive of generateSlotElicitationDetails(slotType).
ElicitSlotDirective(slotType) ==
    [type |-> "Dialog.ElicitSlot", slotName |-> slotType, intent |-> ValueIntentName(slotType)]

\* renderAct: one prompt and one reprompt fragment for the act; for the two
\* request acts the reprompt is chosen by a test on RequestChangedValueAct and
\* an elicit-slot directive is added.  An act of another class throws.
renderAct(ctl, p, act, b) ==
    IF act.kind \in {"RequestValueAct", "RequestChangedValueAct"}
    THEN LET prompt == IF act.kind = "RequestValueAct"
                       THEN evaluatePromptProp("prompts", "requestValue")
                       ELSE evaluatePromptProp("prompts", "requestChangedValue")
             reprompt == IF act.kind = "RequestChangedValueAct"
                         THEN evaluatePromptProp("reprompts", "requestValue")
                         ELSE evaluatePromptProp("reprompts", "requestChangedValue")
         IN  [ctl |-> ctl, threw |-> FALSE,
              builder |-> ResponseBuilder(Append(b.promptFragments, prompt),
                                          Append(b.repromptFragments, reprompt),
                                          Append(b.directives,
                                                 ElicitSlotDirective(p.slotType)))]
    ELSE IF act.kind \in ContentActs \cup {"ConfirmValueAct"}
    THEN [ctl |-> ctl, threw |-> FALSE,
          builder |-> ResponseBuilder(
                          Append(b.promptFragments,
                                 evaluatePromptProp("prompts", PromptKey(act.kind))),
                          Append(b.repromptFragments,
                                 evaluatePromptProp("reprompts", PromptKey(act.kind))),
                          b.directives)]
    ELSE [ctl |-> ctl, threw |-> TRUE, builder |-> b]

(***************************************************************************)
(* ContainerControl over the two children                                  *)
(***************************************************************************)

\* No child selected.
noChild == 0

\* canHandle of the container: the children are asked in registration order and
\* the first one answering true is selected; later siblings are not asked.
\* Mutant: the children are asked last to first, and the last match wins.
ContainerCanHandle_LastMatchWins(ctls, ps, input) ==
    LET d2 == canHandle(ctls[2], ps[2], input)
        c2 == [ctls EXCEPT ![2] = d2.ctl]
        d1 == canHandle(ctls[1], ps[1], input)
        c1 == [c2 EXCEPT ![1] = d1.ctl]
        l2 == evaluateInputHandlersLog(ctls[2], ps[2], input)
        l1 == l2 \o evaluateInputHandlersLog(ctls[1], ps[1], input)
    IN  IF d2.threw
        THEN [ret |-> FALSE, threw |-> TRUE, ctls |-> c2, child |-> noChild, log |-> l2]
        ELSE IF d2.ret
        THEN [ret |-> TRUE, threw |-> FALSE, ctls |-> c2, child |-> 2, log |-> l2]
        ELSE IF d1.threw
        THEN [ret |-> FALSE, threw |-> TRUE, ctls |-> c1, child |-> noChild, log |-> l1]
        ELSE IF d1.ret
        THEN [ret |-> TRUE, threw |-> FALSE, ctls |-> c1, child |-> 1, log |-> l1]
        ELSE [ret |-> FALSE, threw |-> FALSE, ctls |-> c1, child |-> noChild, log |-> l1]

ContainerCanHandle(ctls, ps, input) ==
    LET d1 == canHandle(ctls[1], ps[1], input)
        c1 == [ctls EXCEPT ![1] = d1.ctl]
        d2 == canHandle(ctls[2], ps[2], input)
        c2 == [c1 EXCEPT ![2] = d2.ctl]
        l1 == evaluateInputHandlersLog(ctls[1], ps[1], input)
        l2 == l1 \o evaluateInputHandlersLog(ctls[2], ps[2], input)
    IN  IF d1.threw
        THEN [ret |-> FALSE, threw |-> TRUE, ctls |-> c1, child |-> noChild, log |-> l1]
        ELSE IF d1.ret
        THEN [ret |-> TRUE, threw |-> FALSE, ctls |-> c1, child |-> 1, log |-> l1]
        ELSE IF d2.threw
        THEN [ret |-> FALSE, threw |-> TRUE, ctls |-> c2, child |-> noChild, log |-> l2]
        ELSE IF d2.ret
        THEN [ret |-> TRUE, threw |-> FALSE, ctls |-> c2, child |-> 2, log |-> l2]
        ELSE [ret |-> FALSE, threw |-> FALSE, ctls |-> c2, child |-> noChild, log |-> l2]

\* canTakeInitiative of the container: the same walk, asking canTakeInitiative.
ContainerCanTakeInitiative(ctls, ps) ==
    LET d1 == canTakeInitiative(ctls[1], ps[1])
        c1 == [ctls EXCEPT ![1] = d1.ctl]
        d2 == canTakeInitiative(ctls[2], ps[2])
        c2 == [c1 EXCEPT ![2] = d2.ctl]
    IN  IF d1.ret THEN [ret |-> TRUE, ctls |-> c1, child |-> 1]
        ELSE IF d2.ret THEN [ret |-> TRUE, ctls |-> c2, child |-> 2]
        ELSE [ret |-> FALSE, ctls |-> c2, child |-> noChild]

(***************************************************************************)
(* State                                                                   *)
(***************************************************************************)

VARIABLES
    props,                    \* the props each control was built with
    controls,                 \* the two value controls
    selectedHandlingChild,    \* the container's decision of canHandle
    selectedInitiativeChild,  \* the container's decision of canTakeInitiative
    input,                    \* the input of the current turn / call
    acts,                     \* the acts of the current ControlResultBuilder
    phase,                    \* where the turn stands
    issued,                   \* history: the last initiative act each control issued
    canHandleSucceeded,       \* history: canHandle has returned true on this instance
    changeElicitation,        \* history: the last input left a "change" elicitation pending
    conflictLog,              \* the handler-conflict diagnostics logged by the last canHandle
    manager,                  \* the ControlManager the ControlHandler was built with
    canHandleThrowBehavior,   \* ControlHandler.canHandleThrowBehavior
    response,                 \* the response of the turn
    last,                     \* history: the last operation and what it started from
    builder,                  \* the ControlResponseBuilder the acts are rendered into
    renderedActs,             \* how many acts of the result have been rendered
    tasks,                    \* the call stacks of the asynchronous operations in progress
    askedToConfirm            \* history: the value each control last asked to confirm

vars ==
    <<props, controls, selectedHandlingChild, selectedInitiativeChild, input, acts,
      phase, issued, canHandleSucceeded, changeElicitation, conflictLog, manager,
      canHandleThrowBehavior, response, last, builder, renderedActs, tasks,
      askedToConfirm>>

\* The response builder, the asynchronous call stacks and the confirmation
\* history.
auxVars == <<builder, renderedActs, tasks, askedToConfirm>>

\* The ControlHandler's configuration and its response.
handlerVars == <<manager, canHandleThrowBehavior, response>>

\* History record of the last operation: op, the control it ran on, the handle /
\* initiative function it ran, its boolean result, whether it threw, the
\* ControlState and acts it started from, the handleFunc it started from, and
\* (for canHandle) whether it repeats the previous canHandle on the same input
\* and what that one returned; for a direct call of handle, whether it follows
\* another handle and whether it follows a canHandle that returned true.
Last(op, id, func, ret, threw, pre, preActs, preFunc, again, prevRet) ==
    [op |-> op, id |-> id, func |-> func, ret |-> ret, threw |-> threw,
     pre |-> pre, preActs |-> preActs, preFunc |-> preFunc, again |-> again,
     prevRet |-> prevRet]

NoLast ==
    Last("none", noChild, undefined, FALSE, FALSE, StateOf(NewValueControl), <<>>,
         undefined, FALSE, FALSE)

\* The last initiative act of each control, given the acts of the turn so far.
Issued(old, newActs) ==
    [c \in Controls |->
        LET mine == {i \in 1 .. Len(newActs) :
                        newActs[i].control = c /\ newActs[i].kind \in InitiativeActs}
        IN  IF mine = {} THEN old[c] ELSE newActs[MaxOf(mine)].kind]

\* A ControlManager: whether createControlTree throws, which handleInternalError
\* it has (the default one, or a custom hook) and what the custom hook passes to
\* withShouldEndSession.
Manager(treeThrows, hook, hookEndsSession) ==
    [treeThrows |-> treeThrows, hook |-> hook, hookEndsSession |-> hookEndsSession]

DefaultManager == Manager(FALSE, "default", TRUE)

\* The policies for an exception during canHandle; "Handle" is the default.
ThrowBehaviors == {"Handle", "ReturnFalse", "Rethrow"}

\* A response: who produced it, its prompt, its shouldEndSession flag, and
\* whether handleInternalError was invoked during the turn.
Response(by, prompt, shouldEndSession, hookInvoked) ==
    [by |-> by, prompt |-> prompt, shouldEndSession |-> shouldEndSession,
     hookInvoked |-> hookInvoked]

NoResponse == Response("none", "", FALSE, FALSE)

\* A new input arrives: what the previous input left pending is what is pending
\* at the start of this one.
NextInput(was) == [c \in Controls |-> [now |-> FALSE, atTurnStart |-> was[c].now]]

\* Whether control c has a "change" elicitation pending after an operation of
\* control id that ran func and turned the acts old into new: a
\* RequestChangedValueAct added by handleChangeWithoutValue sets it, any other
\* initiative act of the control clears it.
ChangeElicitation(was, id, func, old, new) ==
    [c \in Controls |->
        IF c = id /\ (\E i \in (Len(old) + 1) .. Len(new) :
                         new[i].control = c /\ new[i].kind \in InitiativeActs)
        THEN [was[c] EXCEPT !.now = (/\ func = "handleChangeWithoutValue"
                                      /\ new[Len(new)].kind = "RequestChangedValueAct")]
        ELSE was[c]]

\* The value control id has asked to confirm and not replaced since, after an
\* operation of it that ran func on inp and turned the acts old into new: a
\* ConfirmValueAct it added carries the value asked about, and a handle
\* function that called setValue without such an act leaves none.
AskedToConfirm(was, id, func, inp, old, new) ==
    [c \in Controls |->
        IF c # id THEN was[c]
        ELSE LET mine == {i \in (Len(old) + 1) .. Len(new) :
                             new[i].control = c /\ new[i].kind = "ConfirmValueAct"}
             IN  IF mine # {} THEN new[MaxOf(mine)].value
                 ELSE IF /\ func \in {"handleSetWithValue", "handleChangeWithValue",
                                       "handleBareValue", "handleSetValue"}
                         /\ hasValueResolution(inp)
                 THEN noValue
                 ELSE was[c]]

Init ==
    /\ props \in {[c \in Controls |-> IF c = 1 THEN p1 ELSE p2] :
                     p1 \in Props1, p2 \in Props2}
    /\ controls = [c \in Controls |-> NewValueControl]
    /\ selectedHandlingChild = noChild
    /\ selectedInitiativeChild = noChild
    /\ input = NoInput
    /\ acts = <<>>
    /\ phase = "idle"
    /\ issued = [c \in Controls |-> undefined]
    /\ canHandleSucceeded = [c \in Controls |-> FALSE]
    /\ changeElicitation = [c \in Controls |-> [now |-> FALSE, atTurnStart |-> FALSE]]
    /\ conflictLog = <<>>
    /\ manager = DefaultManager
    /\ canHandleThrowBehavior = "Handle"
    /\ response = NoResponse
    /\ last = NoLast
    /\ builder = NewResponseBuilder
    /\ renderedActs = 0
    /\ tasks = <<>>
    /\ askedToConfirm = [c \in Controls |-> noValue]

(***************************************************************************)
(* The turn: canHandle, handle, initiative phase                           *)
(***************************************************************************)

\* The tree rebuilt from the serialized state: handleFunc and initiativeFunc are
\* those of a new control, the ControlState is the persisted one.
Rebuilt(ctl) == [ctl EXCEPT !.handleFunc = undefined, !.initiativeFunc = undefined]

\* A new turn: a new input, a new result builder, and the tree rebuilt from the
\* state the previous turn serialized.
StartTurn ==
    /\ phase \in {"idle", "rejected", "done", "error"}
    /\ phase = "done" => renderedActs = Len(acts)
    /\ \E inp \in Inputs : input' = inp
    /\ controls' = [c \in Controls |-> Rebuilt(controls[c])]
    /\ selectedHandlingChild' = noChild
    /\ selectedInitiativeChild' = noChild
    /\ acts' = <<>>
    /\ phase' = "start"
    /\ canHandleSucceeded' = [c \in Controls |-> FALSE]
    /\ changeElicitation' = NextInput(changeElicitation)
    /\ conflictLog' = <<>>
    /\ last' = NoLast
    /\ builder' = NewResponseBuilder
    /\ renderedActs' = 0
    /\ UNCHANGED <<props, issued, tasks, askedToConfirm>>
    /\ UNCHANGED handlerVars

RootCanHandle ==
    /\ phase \in {"start", "decided"}
    /\ \E d \in {ContainerCanHandle(controls, props, input)} :
           /\ controls' = d.ctls
           /\ selectedHandlingChild' = d.child
           /\ phase' = IF d.threw THEN "error" ELSE IF d.ret THEN "decided" ELSE "rejected"
           /\ canHandleSucceeded' =
                 [c \in Controls |-> canHandleSucceeded[c] \/ (d.ret /\ d.child = c)]
           /\ last' = Last("canHandle", d.child, undefined, d.ret, d.threw,
                           StateOf(NewValueControl), <<>>, undefined,
                           last.op = "canHandle", last.ret)
           /\ conflictLog' = d.log
    /\ UNCHANGED <<props, selectedInitiativeChild, input, acts, issued, changeElicitation>>
    /\ UNCHANGED handlerVars
    /\ UNCHANGED auxVars

RootHandle ==
    /\ phase = "decided"
    /\ selectedHandlingChild # noChild
    /\ \E c \in {selectedHandlingChild} :
         \E o \in {handle(controls[c], c, props[c], input, acts)} :
           /\ controls' = [controls EXCEPT ![c] = o.ctl]
           /\ acts' = o.acts
           /\ issued' = Issued(issued, o.acts)
           /\ askedToConfirm' =
                 AskedToConfirm(askedToConfirm, c, controls[c].handleFunc, input, acts, o.acts)
           /\ changeElicitation' =
                 ChangeElicitation(changeElicitation, c, controls[c].handleFunc, acts, o.acts)
           /\ phase' = IF o.threw THEN "error" ELSE "handled"
           /\ last' = Last("handle", c, controls[c].handleFunc, FALSE, o.threw,
                           StateOf(controls[c]), acts, controls[c].handleFunc, FALSE, FALSE)
    /\ UNCHANGED <<props, selectedHandlingChild, selectedInitiativeChild, input,
                   canHandleSucceeded, conflictLog>>
    /\ UNCHANGED handlerVars
    /\ UNCHANGED <<builder, renderedActs, tasks>>

\* The result already holds an initiative act: no initiative phase.
SkipInitiative ==
    /\ phase = "handled"
    /\ hasInitiativeAct(acts)
    /\ phase' = "done"
    /\ UNCHANGED <<props, controls, selectedHandlingChild, selectedInitiativeChild, input,
                   acts, issued, canHandleSucceeded, changeElicitation, conflictLog, last>>
    /\ UNCHANGED handlerVars
    /\ UNCHANGED auxVars

RootCanTakeInitiative ==
    /\ phase = "handled"
    /\ ~hasInitiativeAct(acts)
    /\ \E d \in {ContainerCanTakeInitiative(controls, props)} :
           /\ controls' = d.ctls
           /\ selectedInitiativeChild' = d.child
           /\ phase' = IF d.ret THEN "initiative" ELSE "done"
    /\ UNCHANGED <<props, selectedHandlingChild, input, acts, issued, canHandleSucceeded,
                   changeElicitation, conflictLog, last>>
    /\ UNCHANGED handlerVars
    /\ UNCHANGED auxVars

RootTakeInitiative ==
    /\ phase = "initiative"
    /\ selectedInitiativeChild # noChild
    /\ \E c \in {selectedInitiativeChild} :
         \E o \in {takeInitiative(controls[c], c, props[c], acts)} :
           /\ controls' = [controls EXCEPT ![c] = o.ctl]
           /\ acts' = o.acts
           /\ issued' = Issued(issued, o.acts)
           /\ askedToConfirm' =
                 AskedToConfirm(askedToConfirm, c, controls[c].initiativeFunc, input, acts, o.acts)
           /\ changeElicitation' =
                 ChangeElicitation(changeElicitation, c, controls[c].initiativeFunc, acts,
                                   o.acts)
           /\ phase' = IF o.threw THEN "error" ELSE "done"
           /\ last' = Last("takeInitiative", c, controls[c].initiativeFunc, FALSE, o.threw,
                           StateOf(controls[c]), acts, controls[c].handleFunc, FALSE, FALSE)
    /\ UNCHANGED <<props, selectedHandlingChild, selectedInitiativeChild, input,
                   canHandleSucceeded, conflictLog>>
    /\ UNCHANGED handlerVars
    /\ UNCHANGED <<builder, renderedActs, tasks>>

\* The result of the turn is rendered act by act, each act by its control.
RootRenderAct ==
    /\ phase = "done"
    /\ renderedActs < Len(acts)
    /\ \E act \in {acts[renderedActs + 1]} :
         \E r \in {renderAct(controls[act.control], props[act.control], act, builder)} :
           /\ controls' = [controls EXCEPT ![act.control] = r.ctl]
           /\ builder' = r.builder
           /\ renderedActs' = renderedActs + 1
           /\ phase' = IF r.threw THEN "error" ELSE "done"
    /\ UNCHANGED <<props, selectedHandlingChild, selectedInitiativeChild, input, acts,
                   issued, canHandleSucceeded, changeElicitation, conflictLog, last, tasks,
                   askedToConfirm>>
    /\ UNCHANGED handlerVars

Next ==
    \/ StartTurn
    \/ RootCanHandle
    \/ RootHandle
    \/ SkipInitiative
    \/ RootCanTakeInitiative
    \/ RootTakeInitiative
    \/ RootRenderAct

Spec == Init /\ [][Next]_vars

(***************************************************************************)
(* The dialog with a cooperative user: once the first control has issued   *)
(* an initiative act, every turn answers that control's last initiative    *)
(* act: a bare value that passes validation after RequestValueAct or       *)
(* RequestChangedValueAct, a bare yes after ConfirmValueAct.  Until then   *)
(* the user says nothing the first control accepts, so that the control's  *)
(* first act is its own initiative.  The first control is required and     *)
(* asks for confirmation; it starts without a value.                       *)
(***************************************************************************)

\* The bare values that pass the validation of props p.
AcceptableBareValues(p) ==
    {i \in ValueInputs :
        /\ isBareValue(NewValueControl, p, i)
        /\ \A k \in 1 .. Len(p.validation) :
              ~ValidationFails(p.validation[k], i.value, i.erMatch)}

CooperativeInputs(kind, p) ==
    CASE kind \in ElicitationActs -> AcceptableBareValues(p)
      [] kind = "ConfirmValueAct" -> {i \in OtherInputs : isBareYes(i)}
      [] OTHER -> {i \in Inputs : ~canHandle(NewValueControl, p, i).ret}

DialogStartTurn ==
    /\ phase \in {"idle", "rejected", "done"}
    /\ phase = "done" => renderedActs = Len(acts)
    /\ \E inp \in CooperativeInputs(issued[1], props[1]) : input' = inp
    /\ controls' = [c \in Controls |-> Rebuilt(controls[c])]
    /\ selectedHandlingChild' = noChild
    /\ selectedInitiativeChild' = noChild
    /\ acts' = <<>>
    /\ phase' = "start"
    /\ canHandleSucceeded' = [c \in Controls |-> FALSE]
    /\ changeElicitation' = NextInput(changeElicitation)
    /\ conflictLog' = <<>>
    /\ last' = NoLast
    /\ builder' = NewResponseBuilder
    /\ renderedActs' = 0
    /\ UNCHANGED <<props, issued, tasks, askedToConfirm>>
    /\ UNCHANGED handlerVars

DialogInit ==
    /\ Init
    /\ props[1].required
    /\ props[1].confirmationRequired

DialogNext ==
    \/ DialogStartTurn
    \/ RootCanHandle
    \/ RootHandle
    \/ SkipInitiative
    \/ RootCanTakeInitiative
    \/ RootTakeInitiative
    \/ RootRenderAct

\* Every step of a turn is awaited to its end and the user answers every
\* turn: a step that stays possible is eventually taken.
DialogSpec == DialogInit /\ [][DialogNext]_vars /\ WF_vars(DialogNext)

(***************************************************************************)
(* Direct calls on one ValueControl (the first), in any order, as a caller *)
(* holding the control may make them; each handle gets a new result        *)
(* builder.                                                                *)
(***************************************************************************)

\* The inputs a caller tries on the lone control.
ApiInputs ==
    {i \in Inputs :
        \/ i.intent \in {"AMAZON.YesIntent", "AMAZON.NoIntent", "LaunchRequest"}
        \/ i.target = "t1" /\ i.action # undefined /\ i.valueType \in {SlotType, undefined}
                           /\ (i.intent = "GeneralControlIntent" \/ i.value # noValue)
        \/ i.intent = ValueIntentName(SlotType) /\ i.action = undefined
                                                /\ i.feedback = undefined}

ApiCanHandle ==
    \E inp \in ApiInputs :
        \E d \in {canHandle(controls[1], props[1], inp)} :
            /\ controls' = [controls EXCEPT ![1] = d.ctl]
            /\ input' = inp
            /\ canHandleSucceeded' = [canHandleSucceeded EXCEPT ![1] = @ \/ d.ret]
            /\ last' = Last("canHandle", 1, undefined, d.ret, d.threw, StateOf(controls[1]),
                            <<>>, controls[1].handleFunc,
                            last.op = "canHandle" /\ input = inp, last.ret)
            /\ conflictLog' = evaluateInputHandlersLog(controls[1], props[1], inp)
            /\ UNCHANGED <<props, selectedHandlingChild, selectedInitiativeChild, acts,
                           phase, issued, changeElicitation>>
            /\ UNCHANGED handlerVars
            /\ UNCHANGED auxVars

ApiHandle ==
    \E inp \in ApiInputs :
        \E o \in {handle(controls[1], 1, props[1], inp, <<>>)} :
            /\ controls' = [controls EXCEPT ![1] = o.ctl]
            /\ input' = inp
            /\ acts' = o.acts
            /\ issued' = Issued(issued, o.acts)
            /\ askedToConfirm' =
                  AskedToConfirm(askedToConfirm, 1, controls[1].handleFunc, inp, <<>>, o.acts)
            /\ changeElicitation' =
                  ChangeElicitation(NextInput(changeElicitation), 1,
                                    controls[1].handleFunc, <<>>, o.acts)
            /\ last' = Last("handle", 1, controls[1].handleFunc, FALSE, o.threw,
                            StateOf(controls[1]), <<>>, controls[1].handleFunc,
                            last.op = "handle", last.op = "canHandle" /\ last.ret)
            /\ UNCHANGED <<props, selectedHandlingChild, selectedInitiativeChild, phase,
                           canHandleSucceeded, conflictLog>>
            /\ UNCHANGED handlerVars
            /\ UNCHANGED <<builder, renderedActs, tasks>>

\* The lone control is required; the second control is not part of this tree.
ApiInit ==
    /\ Init
    /\ props[1].required
    /\ props[2] = [defaultProps EXCEPT !.targets = {"t2"}]

ApiNext == ApiCanHandle \/ ApiHandle

ApiSpec == ApiInit /\ [][ApiNext]_vars

\* clear() called directly on the lone control, between the other calls.
ApiClear ==
    /\ controls' = [controls EXCEPT ![1] = clear(controls[1])]
    /\ last' = Last("clear", 1, undefined, FALSE, FALSE, StateOf(controls[1]), <<>>,
                    controls[1].handleFunc, FALSE, FALSE)
    /\ UNCHANGED <<props, input, acts, selectedHandlingChild, selectedInitiativeChild,
                   phase, issued, changeElicitation, canHandleSucceeded, conflictLog>>
    /\ UNCHANGED handlerVars
    /\ UNCHANGED auxVars

ClearNext == ApiCanHandle \/ ApiHandle \/ ApiClear

ClearSpec == ApiInit /\ [][ClearNext]_vars

(***************************************************************************)
(* ControlHandler over a tree that is one ValueControl (the first), built  *)
(* by a ControlManager: canHandle with its throw policy, handle with the   *)
(* initiative phase, and handleInternalError.                              *)
(***************************************************************************)

\* The custom handler lists the control may be built with.
CustomHandlerProfiles ==
    {<<>>, <<"SetValue">>, <<"SetValue", "Exception generating handler">>,
     <<"Exception generating handler", "SetValue">>}

\* The managers: a tree that builds or throws, with the default
\* handleInternalError or a custom one that ends the session or keeps it.
Managers ==
    {Manager(tt, "default", TRUE) : tt \in BOOLEAN}
    \cup {Manager(tt, "custom", e) : tt \in BOOLEAN, e \in BOOLEAN}

\* handleInternalError: the custom hook adds its prompt and sets the session
\* flag; the default one gives the generic fallback and ends the session.
handleInternalError(mgr) ==
    IF mgr.hook = "custom"
    THEN Response("hook", "custom response prompt", mgr.hookEndsSession, TRUE)
    ELSE Response("hook", "generic fallback", TRUE, TRUE)

\* What the skill answers when no request handler accepts the request.
NoHandlerResponse ==
    Response("fallback", "Unable to find a suitable request handler.", FALSE, FALSE)

\* What the caller sees of an exception that propagates out of canHandle.
RethrownResponse == Response("caller", "error message", FALSE, FALSE)

\* Mutant: the default policy treats the exception as "no match".
CanHandleOutcome_DefaultReturnsFalse(behavior, mgr, failed, ret) ==
    IF ~failed THEN [ret |-> ret, rethrown |-> FALSE, prepared |-> NoResponse]
    ELSE [ret |-> FALSE, rethrown |-> behavior = "Rethrow", prepared |-> NoResponse]

\* Mutant: every policy invokes the hook.
CanHandleOutcome_AlwaysHook(behavior, mgr, failed, ret) ==
    IF ~failed THEN [ret |-> ret, rethrown |-> FALSE, prepared |-> NoResponse]
    ELSE [ret |-> TRUE, rethrown |-> FALSE, prepared |-> handleInternalError(mgr)]

\* ControlHandler.canHandle, given whether building the tree or the root's
\* canHandle threw (failed) and what the root returned: an exception is
\* rethrown, turned into false, or (the default) handed to handleInternalError,
\* whose response handle() then returns.
CanHandleOutcome(behavior, mgr, failed, ret) ==
    IF ~failed THEN [ret |-> ret, rethrown |-> FALSE, prepared |-> NoResponse]
    ELSE CASE behavior = "Rethrow" ->
                [ret |-> FALSE, rethrown |-> TRUE, prepared |-> NoResponse]
           [] behavior = "ReturnFalse" ->
                [ret |-> FALSE, rethrown |-> FALSE, prepared |-> NoResponse]
           [] OTHER ->
                [ret |-> TRUE, rethrown |-> FALSE, prepared |-> handleInternalError(mgr)]

\* The initiative phase of the turn: when the result has no initiative act,
\* canTakeInitiative / takeInitiative on the root.
InitiativePhase(ctl, id, p, as) ==
    IF hasInitiativeAct(as) THEN Outcome(ctl, as, FALSE)
    ELSE LET d == canTakeInitiative(ctl, p)
         IN  IF d.ret THEN takeInitiative(d.ctl, id, p, as)
             ELSE Outcome(d.ctl, as, FALSE)

\* The response rendered from the acts of a result.
ActsResponse(as) == Response("controls", "acts", sessionBehavior(as) = "END", FALSE)

\* Mutant: an exception during handle follows the canHandle policy.
HandleResponse_UsesCanHandlePolicy(behavior, mgr, threw, as) ==
    IF ~threw THEN ActsResponse(as)
    ELSE CASE behavior = "Rethrow" -> RethrownResponse
           [] behavior = "ReturnFalse" -> NoHandlerResponse
           [] OTHER -> handleInternalError(mgr)

\* ControlHandler.handle: the response of the turn.  An exception of handle or
\* of the initiative phase goes to handleInternalError whatever the canHandle
\* policy is.
HandleResponse(behavior, mgr, threw, as) ==
    IF threw THEN handleInternalError(mgr) ELSE ActsResponse(as)

\* The inputs of these turns: those of the lone control, and a value intent for
\* a target the control does not have.
SkillInputs ==
    ApiInputs \cup {MkInput(ValueIntentName(SlotType), undefined, ActionSet, "tOther",
                            SlotType, 1)}

SkillStartTurn ==
    /\ phase \in {"idle", "rejected", "done", "error"}
    /\ \E inp \in SkillInputs : input' = inp
    /\ controls' = [c \in Controls |-> Rebuilt(controls[c])]
    /\ acts' = <<>>
    /\ phase' = "start"
    /\ canHandleSucceeded' = [c \in Controls |-> FALSE]
    /\ changeElicitation' = NextInput(changeElicitation)
    /\ conflictLog' = <<>>
    /\ response' = NoResponse
    /\ last' = NoLast
    /\ UNCHANGED <<props, selectedHandlingChild, selectedInitiativeChild, issued, manager,
                   canHandleThrowBehavior>>
    /\ UNCHANGED auxVars

\* ControlHandler.canHandle: build the tree, ask the root.
SkillCanHandle ==
    /\ phase = "start"
    /\ \E d \in {IF manager.treeThrows THEN Decision(FALSE, controls[1], TRUE)
                 ELSE canHandle(controls[1], props[1], input)} :
         \E r \in {CanHandleOutcome(canHandleThrowBehavior, manager, d.threw, d.ret)} :
           /\ controls' = [controls EXCEPT ![1] = d.ctl]
           /\ phase' = IF r.rethrown THEN "error"
                        ELSE IF ~r.ret THEN "rejected"
                        ELSE IF r.prepared.hookInvoked THEN "prepared"
                        ELSE "decided"
           /\ response' = IF r.rethrown THEN RethrownResponse
                           ELSE IF ~r.ret THEN NoHandlerResponse
                           ELSE r.prepared
           /\ canHandleSucceeded' = [canHandleSucceeded EXCEPT ![1] = d.ret /\ ~d.threw]
           /\ conflictLog' = IF manager.treeThrows THEN <<>>
                              ELSE evaluateInputHandlersLog(controls[1], props[1], input)
           /\ last' = Last("canHandle", 1, undefined, r.ret, r.rethrown,
                           StateOf(controls[1]), <<>>, controls[1].handleFunc, FALSE, FALSE)
    /\ UNCHANGED <<props, selectedHandlingChild, selectedInitiativeChild, input, acts,
                   issued, changeElicitation, manager, canHandleThrowBehavior>>
    /\ UNCHANGED auxVars

\* handle after a canHandle that prepared the failure response: return it.
SkillReturnPrepared ==
    /\ phase = "prepared"
    /\ phase' = "done"
    /\ UNCHANGED <<props, controls, selectedHandlingChild, selectedInitiativeChild, input,
                   acts, issued, canHandleSucceeded, changeElicitation, conflictLog, last>>
    /\ UNCHANGED handlerVars
    /\ UNCHANGED auxVars

\* ControlHandler.handle: handle on the root, the initiative phase, the response.
SkillHandle ==
    /\ phase = "decided"
    /\ \E h \in {handle(controls[1], 1, props[1], input, <<>>)} :
         \E o \in {IF h.threw THEN h ELSE InitiativePhase(h.ctl, 1, props[1], h.acts)} :
           /\ controls' = [controls EXCEPT ![1] = o.ctl]
           /\ acts' = o.acts
           /\ issued' = Issued(issued, o.acts)
           /\ askedToConfirm' =
                 AskedToConfirm(askedToConfirm, 1, controls[1].handleFunc, input, <<>>, o.acts)
           /\ changeElicitation' =
                 ChangeElicitation(changeElicitation, 1, controls[1].handleFunc, <<>>,
                                   o.acts)
           /\ phase' = "done"
           /\ response' = HandleResponse(canHandleThrowBehavior, manager, o.threw, o.acts)
           /\ last' = Last("handle", 1, controls[1].handleFunc, FALSE, o.threw,
                           StateOf(controls[1]), <<>>, controls[1].handleFunc, FALSE, FALSE)
    /\ UNCHANGED <<props, selectedHandlingChild, selectedInitiativeChild, input,
                   canHandleSucceeded, conflictLog, manager, canHandleThrowBehavior>>
    /\ UNCHANGED <<builder, renderedActs, tasks>>

\* The props the control of this tree may be built with.
SkillProps ==
    {[defaultProps EXCEPT !.confirmationRequired = c, !.customHandlingFuncs = h,
                          !.targets = {"t1"}] :
        c \in BOOLEAN, h \in CustomHandlerProfiles}

SkillInit ==
    /\ props \in {[c \in Controls |-> IF c = 1 THEN p1
                                       ELSE [defaultProps EXCEPT !.targets = {"t2"}]] :
                     p1 \in SkillProps}
    /\ controls = [c \in Controls |-> NewValueControl]
    /\ selectedHandlingChild = noChild
    /\ selectedInitiativeChild = noChild
    /\ input = NoInput
    /\ acts = <<>>
    /\ phase = "idle"
    /\ issued = [c \in Controls |-> undefined]
    /\ canHandleSucceeded = [c \in Controls |-> FALSE]
    /\ changeElicitation = [c \in Controls |-> [now |-> FALSE, atTurnStart |-> FALSE]]
    /\ conflictLog = <<>>
    /\ manager \in Managers
    /\ canHandleThrowBehavior \in ThrowBehaviors
    /\ response = NoResponse
    /\ last = NoLast
    /\ builder = NewResponseBuilder
    /\ renderedActs = 0
    /\ tasks = <<>>
    /\ askedToConfirm = [c \in Controls |-> noValue]

SkillNext ==
    \/ SkillStartTurn
    \/ SkillCanHandle
    \/ SkillReturnPrepared
    \/ SkillHandle

SkillSpec == SkillInit /\ [][SkillNext]_vars

(***************************************************************************)
(* The turn as asynchronous calls: every async function of ValueControl is *)
(* a frame of a call stack, a call whose promise is awaited pushes a frame *)
(* on the caller's stack, a call whose promise is dropped starts a stack   *)
(* of its own, and any stack may take the next step.                       *)
(***************************************************************************)

\* The call sites (caller, callee) of ValueControl whose promise is awaited or
\* returned.  Mutant: handle calls this.handleFunc without awaiting it.
AwaitedCalls_HandleFuncDropped ==
    {<<"canHandle", "evaluateInputHandlers">>,
     <<"handle", "canTakeInitiative">>,
     <<"handle", "takeInitiative">>,
     <<"handleSetWithValue", "validateAndAddActs">>,
     <<"handleChangeWithValue", "validateAndAddActs">>,
     <<"handleBareValue", "validateAndAddActs">>,
     <<"canTakeInitiative", "wantsToFixInvalidValue">>,
     <<"takeInitiative", "initiativeFunc">>,
     <<"validateAndAddActs", "evaluateValidationProp">>,
     <<"wantsToFixInvalidValue", "evaluateValidationProp">>,
     <<"fixInvalidValue", "validateAndAddActs">>}

AwaitedCalls ==
    {<<"canHandle", "evaluateInputHandlers">>,
     <<"handle", "handleFunc">>,
     <<"handle", "canTakeInitiative">>,
     <<"handle", "takeInitiative">>,
     <<"handleSetWithValue", "validateAndAddActs">>,
     <<"handleChangeWithValue", "validateAndAddActs">>,
     <<"handleBareValue", "validateAndAddActs">>,
     <<"canTakeInitiative", "wantsToFixInvalidValue">>,
     <<"takeInitiative", "initiativeFunc">>,
     <<"validateAndAddActs", "evaluateValidationProp">>,
     <<"wantsToFixInvalidValue", "evaluateValidationProp">>,
     <<"fixInvalidValue", "validateAndAddActs">>}

\* The driver of the turn awaits each operation it starts on the tree.
TurnAwaitedCalls ==
    {<<"turn", "canHandle">>, <<"turn", "handle">>, <<"turn", "canTakeInitiative">>,
     <<"turn", "takeInitiative">>}

\* The operations of a turn on the tree.
TurnOps == {"canHandle", "handle", "canTakeInitiative", "takeInitiative"}

\* The handle functions declared async.
AsyncHandleFuncs == {"handleSetWithValue", "handleChangeWithValue", "handleBareValue"}

\* The functions stored in this.initiativeFunc.
InitiativeFuncs == {"confirmValue", "fixInvalidValue", "elicitValue"}

\* The functions outside ValueControl whose promise it awaits.
ExternalFuncs == {"evaluateInputHandlers", "evaluateValidationProp"}

\* The call site of a call of callee made by caller.
CallSite(caller, callee) ==
    IF caller = "handle" /\ callee \notin TurnOps THEN <<"handle", "handleFunc">>
    ELSE IF caller = "takeInitiative" THEN <<"takeInitiative", "initiativeFunc">>
    ELSE <<caller, callee>>

\* What a frame started from: the ControlState, the handleFunc and the acts.
Snapshot(ctl, as) == [st |-> StateOf(ctl), func |-> ctl.handleFunc, acts |-> as]

\* A frame: the function, the control it runs on, the position in its body,
\* the operation of the turn it runs for, the elicitation action it was
\* passed, the boolean its last callee returned, and what it started from.
Frame(fn, id, pc, op, arg, ret, pre) ==
    [fn |-> fn, id |-> id, pc |-> pc, op |-> op, arg |-> arg, ret |-> ret, pre |-> pre]

\* The next thing a frame does: it calls callee on control id and goes on at
\* next, it returns ret, it throws, or it waits for an external promise.  ctl
\* and acts are the control and the acts as the frame leaves them.
Call(callee, id, next, arg, ctl, as) ==
    [kind |-> "call", callee |-> callee, id |-> id, next |-> next, arg |-> arg,
     ctl |-> ctl, acts |-> as, ret |-> FALSE]

Return(ctl, as, ret) ==
    [kind |-> "return", callee |-> undefined, id |-> noChild, next |-> 0,
     arg |-> undefined, ctl |-> ctl, acts |-> as, ret |-> ret]

Throw(ctl, as) ==
    [kind |-> "throw", callee |-> undefined, id |-> noChild, next |-> 0,
     arg |-> undefined, ctl |-> ctl, acts |-> as, ret |-> FALSE]

Suspended(ctl, as) ==
    [kind |-> "suspended", callee |-> undefined, id |-> noChild, next |-> 0,
     arg |-> undefined, ctl |-> ctl, acts |-> as, ret |-> FALSE]

\* The driver of the turn: the children are asked canHandle in registration
\* order, the first that accepts handles; without an initiative act in the
\* result they are asked canTakeInitiative in the same order and the first
\* that accepts takes the initiative.
TurnInstr(f, as) ==
    CASE f.pc = 1 -> Call("canHandle", 1, 2, undefined, NewValueControl, as)
      [] f.pc = 2 -> IF f.ret THEN Call("handle", 1, 4, undefined, NewValueControl, as)
                     ELSE Call("canHandle", 2, 3, undefined, NewValueControl, as)
      [] f.pc = 3 -> IF f.ret THEN Call("handle", 2, 4, undefined, NewValueControl, as)
                     ELSE Return(NewValueControl, as, FALSE)
      [] f.pc = 4 -> IF hasInitiativeAct(as) THEN Return(NewValueControl, as, FALSE)
                     ELSE Call("canTakeInitiative", 1, 5, undefined, NewValueControl, as)
      [] f.pc = 5 -> IF f.ret THEN Call("takeInitiative", 1, 7, undefined, NewValueControl, as)
                     ELSE Call("canTakeInitiative", 2, 6, undefined, NewValueControl, as)
      [] f.pc = 6 -> IF f.ret THEN Call("takeInitiative", 2, 7, undefined, NewValueControl, as)
                     ELSE Return(NewValueControl, as, FALSE)
      [] OTHER -> Return(NewValueControl, as, FALSE)

\* The bodies of the functions of ValueControl, cut at their calls.
ControlInstr(f, ctl, p, inp, as) ==
    CASE f.fn = "canHandle" ->
            IF f.pc = 1 THEN Call("evaluateInputHandlers", f.id, 2, undefined, ctl, as)
            ELSE LET d == canHandle(ctl, p, inp)
                 IN  IF d.threw THEN Throw(d.ctl, as) ELSE Return(d.ctl, as, d.ret)
      [] f.fn \in ExternalFuncs -> Suspended(ctl, as)
      [] f.fn = "handle" ->
            CASE f.pc = 1 -> IF ctl.handleFunc = undefined THEN Throw(ctl, as)
                             ELSE Call(ctl.handleFunc, f.id, 2, undefined, ctl, as)
              [] f.pc = 2 -> IF hasInitiativeAct(as) THEN Return(ctl, as, FALSE)
                             ELSE Call("canTakeInitiative", f.id, 3, undefined, ctl, as)
              [] f.pc = 3 -> IF f.ret THEN Call("takeInitiative", f.id, 4, undefined, ctl, as)
                             ELSE Return(ctl, as, FALSE)
              [] OTHER -> Return(ctl, as, FALSE)
      [] f.fn \in AsyncHandleFuncs ->
            IF f.pc = 1
            THEN IF ~hasValueResolution(inp) THEN Throw(ctl, as)
                 ELSE Call("validateAndAddActs", f.id, 2,
                           CASE f.fn = "handleSetWithValue" -> ActionSet
                             [] f.fn = "handleChangeWithValue" -> ActionChange
                             [] OTHER -> IF ctl.elicitationAction # undefined
                                         THEN ctl.elicitationAction ELSE ActionSet,
                           setValue(ctl, inp.value, inp.erMatch), as)
            ELSE Return(ctl, as, FALSE)
      [] f.fn = "validateAndAddActs" ->
            IF f.pc = 1
            THEN Call("evaluateValidationProp", f.id, 2, f.arg,
                      [ctl EXCEPT !.elicitationAction = f.arg], as)
            ELSE LET o == validateAndAddActs(ctl, f.id, p, as, f.arg)
                 IN  IF o.threw THEN Throw(o.ctl, o.acts) ELSE Return(o.ctl, o.acts, FALSE)
      [] f.fn = "canTakeInitiative" ->
            IF f.pc = 1 /\ ~wantsToConfirmValue(ctl, p)
            THEN Call("wantsToFixInvalidValue", f.id, 2, undefined, ctl, as)
            ELSE LET d == canTakeInitiative(ctl, p) IN Return(d.ctl, as, d.ret)
      [] f.fn = "wantsToFixInvalidValue" ->
            IF f.pc = 1 /\ ctl.value # noValue
            THEN Call("evaluateValidationProp", f.id, 2, undefined, ctl, as)
            ELSE Return(ctl, as, FALSE)
      [] f.fn = "takeInitiative" ->
            IF f.pc = 1
            THEN IF ctl.initiativeFunc = undefined THEN Throw(ctl, as)
                 ELSE Call(ctl.initiativeFunc, f.id, 2, undefined, ctl, as)
            ELSE Return(ctl, as, FALSE)
      [] f.fn = "fixInvalidValue" ->
            IF f.pc = 1 THEN Call("validateAndAddActs", f.id, 2, ActionChange, ctl, as)
            ELSE Return(ctl, as, FALSE)
      [] f.fn = "confirmValue" ->
            LET o == confirmValue(ctl, f.id, p, as)
            IN  IF o.threw THEN Throw(o.ctl, o.acts) ELSE Return(o.ctl, o.acts, FALSE)
      [] f.fn = "elicitValue" ->
            LET o == elicitValue(ctl, f.id, p, as)
            IN  IF o.threw THEN Throw(o.ctl, o.acts) ELSE Return(o.ctl, o.acts, FALSE)
      [] OTHER ->
            LET o == CallHandleFunc([ctl EXCEPT !.handleFunc = f.fn], f.id, p, inp, as)
            IN  IF o.threw THEN Throw(o.ctl, o.acts)
                ELSE Return([o.ctl EXCEPT !.handleFunc = ctl.handleFunc], o.acts, FALSE)

Instr(f, ctls, ps, inp, as) ==
    IF f.fn = "turn" THEN TurnInstr(f, as)
    ELSE ControlInstr(f, ctls[f.id], ps[f.id], inp, as)

\* The controls after a frame on control id has left its control as ctl.
Written(ctls, f, ctl) == IF f.fn = "turn" THEN ctls ELSE [ctls EXCEPT ![f.id] = ctl]

\* The tasks with the stack of task i replaced by s; a task whose stack is
\* empty has finished.
WithStack(ts, i, s) ==
    IF s = <<>> THEN SubSeq(ts, 1, i - 1) \o SubSeq(ts, i + 1, Len(ts))
    ELSE [ts EXCEPT ![i] = s]

\* The phase after the operation of frame f has completed with ret: how far
\* the turn has got.
PhaseAfter(f, ret, ph) ==
    CASE f.fn = "turn" -> IF ph = "handled" THEN "done" ELSE ph
      [] f.fn # f.op -> ph
      [] f.fn = "canHandle" ->
            IF ret THEN "decided" ELSE IF f.id = 2 THEN "rejected" ELSE ph
      [] f.fn = "handle" -> "handled"
      [] f.fn = "canTakeInitiative" ->
            IF ret THEN "initiative" ELSE IF f.id = 2 THEN "done" ELSE ph
      [] OTHER -> "done"

\* The history record written when the operation of frame f completes.
LastAfter(f, ret, threw, l) ==
    IF f.fn = f.op /\ f.fn # "turn"
    THEN Last(f.fn, f.id, f.pre.func, ret, threw, f.pre.st, f.pre.acts, f.pre.func,
              FALSE, FALSE)
    ELSE l

AwaitStartTurn ==
    /\ tasks = <<>>
    /\ phase \in {"idle", "rejected", "done", "error"}
    /\ \E inp \in Inputs : input' = inp
    /\ controls' = [c \in Controls |-> Rebuilt(controls[c])]
    /\ acts' = <<>>
    /\ phase' = "start"
    /\ last' = NoLast
    /\ tasks' = <<<<Frame("turn", noChild, 1, "turn", undefined, FALSE,
                          Snapshot(NewValueControl, <<>>))>>>>
    /\ UNCHANGED <<props, selectedHandlingChild, selectedInitiativeChild, issued,
                   canHandleSucceeded, changeElicitation, conflictLog, builder,
                   renderedActs, askedToConfirm>>
    /\ UNCHANGED handlerVars

\* A function reaches a call: an awaited callee runs on the caller's stack, a
\* callee whose promise is dropped runs on a stack of its own.
AwaitCall ==
    \E i \in 1 .. Len(tasks) :
      \E f \in {tasks[i][Len(tasks[i])]} :
        \E x \in {Instr(f, controls, props, input, acts)} :
          /\ x.kind = "call"
          /\ \E g \in {Frame(x.callee, x.id, 1, IF f.fn = "turn" THEN x.callee ELSE f.op,
                             x.arg, FALSE,
                             Snapshot(Written(controls, f, x.ctl)[x.id], x.acts))} :
               \E caller \in {[tasks[i] EXCEPT ![Len(tasks[i])] =
                                  [f EXCEPT !.pc = x.next]]} :
                 tasks' = IF CallSite(f.fn, x.callee) \in AwaitedCalls \cup TurnAwaitedCalls
                          THEN [tasks EXCEPT ![i] = Append(caller, g)]
                          ELSE Append([tasks EXCEPT ![i] = caller], <<g>>)
          /\ controls' = Written(controls, f, x.ctl)
          /\ UNCHANGED <<props, selectedHandlingChild, selectedInitiativeChild, input, acts,
                         phase, issued, canHandleSucceeded, changeElicitation, conflictLog,
                         last, builder, renderedActs, askedToConfirm>>
          /\ UNCHANGED handlerVars

\* The promise of an external function resolves.
AwaitResume ==
    \E i \in 1 .. Len(tasks) :
      \E f \in {tasks[i][Len(tasks[i])]} :
        /\ Instr(f, controls, props, input, acts).kind = "suspended"
        /\ tasks' = WithStack(tasks, i, SubSeq(tasks[i], 1, Len(tasks[i]) - 1))
        /\ UNCHANGED <<props, controls, selectedHandlingChild, selectedInitiativeChild,
                       input, acts, phase, issued, canHandleSucceeded, changeElicitation,
                       conflictLog, last, builder, renderedActs, askedToConfirm>>
        /\ UNCHANGED handlerVars

\* A function returns: its caller, if it has one, receives the result.
AwaitReturn ==
    \E i \in 1 .. Len(tasks) :
      \E f \in {tasks[i][Len(tasks[i])]} :
        \E x \in {Instr(f, controls, props, input, acts)} :
          /\ x.kind = "return"
          /\ \E rest \in {SubSeq(tasks[i], 1, Len(tasks[i]) - 1)} :
               tasks' = WithStack(tasks, i,
                                  IF rest = <<>> THEN rest
                                  ELSE [rest EXCEPT ![Len(rest)].ret = x.ret])
          /\ controls' = Written(controls, f, x.ctl)
          /\ acts' = x.acts
          /\ phase' = PhaseAfter(f, x.ret, phase)
          /\ last' = LastAfter(f, x.ret, FALSE, last)
          /\ UNCHANGED <<props, selectedHandlingChild, selectedInitiativeChild, input,
                         issued, canHandleSucceeded, changeElicitation, conflictLog, builder,
                         renderedActs, askedToConfirm>>
          /\ UNCHANGED handlerVars

\* A function throws: nothing on its stack catches, so the whole stack ends.
AwaitThrow ==
    \E i \in 1 .. Len(tasks) :
      \E f \in {tasks[i][Len(tasks[i])]} :
        \E x \in {Instr(f, controls, props, input, acts)} :
          /\ x.kind = "throw"
          /\ tasks' = WithStack(tasks, i, <<>>)
          /\ controls' = Written(controls, f, x.ctl)
          /\ acts' = x.acts
          /\ phase' = "error"
          /\ last' = LastAfter(tasks[i][IF Len(tasks[i]) >= 2 THEN 2 ELSE 1], FALSE, TRUE,
                               last)
          /\ UNCHANGED <<props, selectedHandlingChild, selectedInitiativeChild, input,
                         issued, canHandleSucceeded, changeElicitation, conflictLog, builder,
                         renderedActs, askedToConfirm>>
          /\ UNCHANGED handlerVars

AwaitNext ==
    \/ AwaitStartTurn
    \/ AwaitCall
    \/ AwaitResume
    \/ AwaitReturn
    \/ AwaitThrow

AwaitSpec == Init /\ [][AwaitNext]_vars

(***************************************************************************)
(* Properties                                                              *)
(***************************************************************************)

InitiativeCount(as) == Cardinality({i \in 1 .. Len(as) : as[i].kind \in InitiativeActs})

\* The handle functions that store a value.
ValueHandlers == {"handleSetWithValue", "handleChangeWithValue", "handleBareValue"}

\* The action a value-storing handle function, recorded in l, attempted.
AttemptedAction(l) ==
    CASE l.func = "handleSetWithValue" -> ActionSet
      [] l.func = "handleChangeWithValue" -> ActionChange
      [] OTHER -> IF l.pre.elicitationAction # undefined THEN l.pre.elicitationAction
                  ELSE ActionSet

\* Whether some validation function of p rejects the value held in st.
Rejected(st, p) ==
    \E k \in 1 .. Len(p.validation) :
        ValidationFails(p.validation[k], st.value, st.erMatch = "true")

\* r is the reason of the first validation function of p, in order, that
\* rejects the value held in st.
IsFirstFailure(st, p, r) ==
    \E k \in 1 .. Len(p.validation) :
        /\ p.validation[k] = r
        /\ ValidationFails(p.validation[k], st.value, st.erMatch = "true")
        /\ \A j \in 1 .. (k - 1) :
              ~ValidationFails(p.validation[j], st.value, st.erMatch = "true")

\* C1: the result of a turn never holds more than one initiative act
\* (RequestValueAct, RequestChangedValueAct, ConfirmValueAct).
C1_AtMostOneInitiativeAct == InitiativeCount(acts) <= 1

\* A turn that ended with a content act of the handler and the one initiative
\* act of the initiative phase.
C1_Witness ==
    /\ phase = "done"
    /\ last.op = "takeInitiative"
    /\ Len(acts) >= 2
    /\ InitiativeCount(acts) = 1

\* C2 (as claimed): a bare yes / no is selected for the confirmation handlers
\* only if the last initiative act the control issued was a ConfirmValueAct.
C2_YesNoOnlyAfterConfirmRequest ==
    \A c \in Controls :
        (/\ phase = "decided"
         /\ selectedHandlingChild = c
         /\ controls[c].handleFunc \in
               {"handleConfirmationAffirmed", "handleConfirmationDisaffirmed"})
        => issued[c] = "ConfirmValueAct"

\* C3: after a handle function that stores a value (SetWithValue,
\* ChangeWithValue, BareValue) state.isValueConfirmed is false, whatever it was
\* before.
C3_ConfirmationClearedBySetValue ==
    (last.op = "handle" /\ last.func \in ValueHandlers)
    => controls[last.id].isValueConfirmed = FALSE

\* A confirmed value was stored again: the flag was true and is now false.
C3_Witness ==
    /\ last.op = "handle"
    /\ last.func \in ValueHandlers
    /\ last.pre.isValueConfirmed
    /\ last.pre.value = controls[last.id].value
    /\ ~controls[last.id].isValueConfirmed

\* C4: every ValueChangedAct carries a defined previousValue; a successful
\* "change" with state.previousValue undefined throws and adds no act.
C4_ValueChangedNeedsPreviousValue ==
    /\ \A i \in 1 .. Len(acts) :
          acts[i].kind = "ValueChangedAct" => acts[i].previousValue # noValue
    /\ (/\ last.op = "handle"
        /\ last.func \in ValueHandlers
        /\ AttemptedAction(last) = ActionChange
        /\ controls[last.id].previousValue = noValue
        /\ ~Rejected(controls[last.id], props[last.id]))
       => (last.threw /\ acts = last.preActs)

\* "change t1 to v" on a control without a value: the handler threw.
C4_Witness ==
    /\ phase = "error"
    /\ last.op = "handle"
    /\ AttemptedAction(last) = ActionChange
    /\ controls[last.id].previousValue = noValue
    /\ controls[last.id].value # noValue
    /\ last.threw

\* C5: canHandle leaves the ControlState as it was, and a canHandle repeated
\* on the same input returns the same boolean and selects the same handler.
C5_CanHandleIdempotent ==
    last.op = "canHandle"
    => /\ StateOf(controls[last.id]) = last.pre
       /\ last.again
          => /\ last.ret = last.prevRet
             /\ controls[last.id].handleFunc = last.preFunc

\* A second canHandle on the same input, accepting a bare yes.
C5_Witness ==
    /\ last.op = "canHandle"
    /\ last.again
    /\ last.ret
    /\ controls[last.id].handleFunc = "handleConfirmationAffirmed"

\* C6: handle on a control on which no canHandle has succeeded throws, adds no
\* act and leaves the ControlState as it was.
C6_HandleWithoutCanHandleThrows ==
    (last.op = "handle" /\ ~canHandleSucceeded[last.id])
    => /\ last.threw
       /\ acts = last.preActs
       /\ StateOf(controls[last.id]) = last.pre

C6_Witness ==
    /\ last.op = "handle"
    /\ ~canHandleSucceeded[last.id]
    /\ last.threw
    /\ input.intent = ValueIntentName(SlotType)

\* The initiative act the claimed order yields for a control in state st:
\* (a) confirmation, (b) fixing an invalid value, (c) eliciting a missing one.
ExpectedInitiative(st, p) ==
    IF p.confirmationRequired /\ st.value # noValue /\ ~st.isValueConfirmed
    THEN "ConfirmValueAct"
    ELSE IF st.value # noValue /\ Rejected(st, p) THEN "RequestChangedValueAct"
    ELSE IF st.value = noValue /\ p.required THEN "RequestValueAct"
    ELSE "none"

\* C7: canTakeInitiative / takeInitiative decide in the order (a), (b), (c):
\* the control selected for the initiative phase wants one of them and the
\* controls before it none; takeInitiative ends the result with the act of
\* the first case that holds; a control that declined wants none.
C7_InitiativeOrder ==
    /\ phase = "initiative"
       => /\ selectedInitiativeChild # noChild
          /\ \A c \in Controls :
                c <= selectedInitiativeChild
                => ((ExpectedInitiative(StateOf(controls[c]), props[c]) = "none")
                    <=> (c < selectedInitiativeChild))
    /\ (last.op = "takeInitiative" /\ ~last.threw)
       => /\ acts[Len(acts)].kind = ExpectedInitiative(last.pre, props[last.id])
          /\ acts[Len(acts)].control = last.id
          /\ InitiativeCount(acts) = 1
    /\ (phase = "done" /\ ~hasInitiativeAct(acts))
       => \A c \in Controls :
             ExpectedInitiative(StateOf(controls[c]), props[c]) = "none"
    /\ (phase = "handled" /\ ~hasInitiativeAct(acts))
       => ExpectedInitiative(StateOf(controls[last.id]), props[last.id]) = "none"

\* The initiative phase re-elicited an invalid value as a change.
C7_Witness ==
    /\ last.op = "takeInitiative"
    /\ ~last.threw
    /\ last.pre.value # noValue
    /\ acts[Len(acts)].kind = "RequestChangedValueAct"

\* C8 (as claimed): a ConfirmValueAct is only emitted for a value that passes
\* the control's validation, and validation is never evaluated without a value.
C8_NeverConfirmInvalidValue ==
    /\ \A i \in 1 .. Len(acts) :
          acts[i].kind = "ConfirmValueAct"
          => ~Rejected(controls[acts[i].control], props[acts[i].control])
    /\ \A c \in Controls : ~controls[c].validatedWithoutValue

\* C9: a value-storing handler whose value validation rejects does not throw
\* and adds exactly InvalidValueAct, with the reason of the first failing
\* validation function, followed by the elicitation act of the action attempted.
C9_RejectedValueReElicits ==
    (/\ last.op = "handle"
     /\ last.func \in ValueHandlers
     /\ Rejected(controls[last.id], props[last.id]))
    => /\ ~last.threw
       /\ Len(acts) = 2
       /\ acts[1].kind = "InvalidValueAct"
       /\ acts[1].control = last.id
       /\ acts[1].value = controls[last.id].value
       /\ IsFirstFailure(controls[last.id], props[last.id], acts[1].reason)
       /\ acts[2].kind = (IF AttemptedAction(last) = ActionSet THEN "RequestValueAct"
                          ELSE "RequestChangedValueAct")
       /\ acts[2].control = last.id

\* A bare value answering a "change" elicitation was rejected by the first of
\* two failing validation functions.
C9_Witness ==
    /\ last.op = "handle"
    /\ last.func = "handleBareValue"
    /\ last.pre.elicitationAction = ActionChange
    /\ Len(acts) = 2
    /\ acts[1].reason = "noMatch"
    /\ acts[2].kind = "RequestChangedValueAct"

\* The turn is over and its input was a "set" with a value, handled by the
\* first control, while the second control is required and empty.
ScenarioB ==
    /\ phase = "done"
    /\ selectedHandlingChild = 1
    /\ controls[1].handleFunc = "handleSetWithValue"
    /\ props[2].required
    /\ controls[2].value = noValue

ScenarioBResult ==
    /\ Len(acts) = 2
    /\ acts[1].kind = "ValueSetAct"
    /\ acts[1].control = 1
    /\ acts[1].value = input.value
    /\ acts[2].kind = "RequestValueAct"
    /\ acts[2].control = 2
    /\ controls[1].value = input.value

\* C10 (as claimed): in scenario B the acts are ValueSetAct of the first
\* control, then RequestValueAct of the second, and the first holds the value.
C10_ScenarioB_AsClaimed == ScenarioB => ScenarioBResult

\* C10 (amended): the same, when the first control's validation accepts the
\* value and the first control does not require confirmation.
C10_ScenarioB ==
    (/\ ScenarioB
     /\ ~props[1].confirmationRequired
     /\ ~Rejected(controls[1], props[1]))
    => ScenarioBResult

C10_Witness ==
    /\ ScenarioB
    /\ ~props[1].confirmationRequired
    /\ ~Rejected(controls[1], props[1])
    /\ last.op = "takeInitiative"
    /\ last.id = 2
    /\ Len(acts) = 2

\* A bare value: the value intent with a value and no feedback, action, target.
IsBareValueInput(inp) ==
    /\ inp.intent = ValueIntentName(SlotType)
    /\ inp.valueType = SlotType
    /\ inp.value # noValue
    /\ inp.feedback = undefined
    /\ inp.action = undefined
    /\ inp.target = undefined

\* The required controls without a value.
RequiredEmpty == {c \in Controls : props[c].required /\ controls[c].value = noValue}

\* The acts scenario C promises for control A.
ScenarioCActs(A) ==
    /\ Len(acts) >= 1
    /\ acts[1].kind = "ValueChangedAct"
    /\ acts[1].control = A
    /\ acts[1].value = input.value
    /\ IF RequiredEmpty # {}
       THEN /\ Len(acts) = 2
            /\ acts[2].kind = "RequestValueAct"
            /\ acts[2].control = MinOf(RequiredEmpty)
       ELSE Len(acts) = 1

ScenarioCApplies(A) ==
    /\ phase \in {"done", "error"}
    /\ changeElicitation[A].atTurnStart
    /\ IsBareValueInput(input)
    /\ selectedHandlingChild = A
    /\ controls[A].previousValue # noValue
    /\ \A c \in Controls :
          ExpectedInitiative(StateOf(controls[c]), props[c])
             \notin {"ConfirmValueAct", "RequestChangedValueAct"}
    /\ ~props[A].confirmationRequired

C11_WitnessLast ==
    /\ ScenarioCApplies(1)
    /\ ScenarioCActs(1)
    /\ RequiredEmpty = {}

\* A turn of the single-control tree in which "set t1 to X" was handled, the
\* control being required, without validation and without confirmation.
ScenarioA ==
    /\ phase = "done"
    /\ last.op = "handle"
    /\ last.func = "handleSetWithValue"
    /\ props[1].required
    /\ props[1].validation = <<>>
    /\ ~props[1].confirmationRequired

\* The acts and the value scenario A promises.
C12_ScenarioA_Acts ==
    ScenarioA
    => /\ ~last.threw
       /\ controls[1].value = input.value
       /\ Len(acts) = 1
       /\ acts[1].kind = "ValueSetAct"
       /\ acts[1].control = 1
       /\ acts[1].value = input.value

\* C12 (as claimed): in scenario A the control holds X, the acts are exactly
\* ValueSetAct(X), and the session stays open only if the turn has an
\* initiative act and is closed otherwise.
C12_ScenarioA_AsClaimed ==
    /\ C12_ScenarioA_Acts
    /\ ScenarioA => (sessionBehavior(acts) = "OPEN" <=> hasInitiativeAct(acts))

\* C13 (as claimed): at the end of a turn the session behaviour of the result
\* is open if and only if the result holds an initiative act.
C13_SessionOpenIffInitiativeAct ==
    phase = "done" => (sessionBehavior(acts) = "OPEN" <=> hasInitiativeAct(acts))

\* C14: an initiative act is the last act of the result: every act before it
\* is a content act and nothing is appended after it.
C14_ContentActsPrecedeInitiativeAct ==
    \A i \in 1 .. Len(acts) :
        /\ acts[i].kind \in ContentActs \cup InitiativeActs
        /\ acts[i].kind \in InitiativeActs => i = Len(acts)

\* A "no" to a confirmation request: ValueDisconfirmedAct, then RequestValueAct.
C14_Witness ==
    /\ last.op = "handle"
    /\ last.func = "handleConfirmationDisaffirmed"
    /\ Len(acts) = 2
    /\ acts[1].kind = "ValueDisconfirmedAct"
    /\ acts[2].kind = "RequestValueAct"

\* The control the last operation ran on, as it was before the operation.
PreOf(c) ==
    [f \in DOMAIN NewValueControl |->
        IF f \in StateFields THEN last.pre[f]
        ELSE IF f = "handleFunc" THEN last.preFunc
        ELSE IF f = "initiativeFunc" THEN undefined
        ELSE controls[c][f]]

\* What the selected input handler alone did in the last handle.
HandlerOutcome == CallHandleFunc(PreOf(last.id), last.id, props[last.id], input, last.preActs)

\* The last operation was a handle whose input handler added no initiative act.
HandledWithoutInitiative ==
    /\ last.op = "handle"
    /\ ~last.threw
    /\ ~HandlerOutcome.threw
    /\ ~hasInitiativeAct(HandlerOutcome.acts)

\* The controls whose canTakeInitiative returns true, in the tree ctls.
Willing(ctls) == {c \in Controls : canTakeInitiative(ctls[c], props[c]).ret}

\* The tree right after the input handler of the last handle returned.
AfterHandler == [controls EXCEPT ![last.id] = HandlerOutcome.ctl]

\* The tree right before the last operation.
BeforeLast == [controls EXCEPT ![last.id] = PreOf(last.id)]

\* The acts as extend the acts bs by at least one act.
Extends(as, bs) == Len(as) > Len(bs) /\ SubSeq(as, 1, Len(bs)) = bs

\* C15 (as claimed): when the handler added no initiative act, the initiative
\* act of the turn comes from the first control in registration order whose
\* canTakeInitiative is true, the handling control counting like any other.
C15_TwoPhaseTurn_AsClaimed ==
    /\ (HandledWithoutInitiative /\ hasInitiativeAct(acts))
       => acts[Len(acts)].control = MinOf(Willing(AfterHandler))
    /\ (last.op = "takeInitiative" /\ ~last.threw)
       => /\ last.id = MinOf(Willing(BeforeLast))
          /\ acts[Len(acts)].control = last.id

\* C15 (amended): when the handler added no initiative act, the handling control
\* is asked first, inside its own handle, and issues the initiative act if its
\* canTakeInitiative is true; only if it declines does the walk over the tree
\* run, and the act then comes from the first willing control in registration
\* order.
C15_TwoPhaseTurn ==
    /\ HandledWithoutInitiative
       => IF last.id \in Willing(AfterHandler)
          THEN /\ Extends(acts, HandlerOutcome.acts)
               /\ acts[Len(acts)].kind \in InitiativeActs
               /\ acts[Len(acts)].control = last.id
          ELSE /\ acts = HandlerOutcome.acts
               /\ phase = "initiative" => selectedInitiativeChild = MinOf(Willing(controls))
               /\ phase = "done" => Willing(controls) = {}
    /\ (last.op = "takeInitiative" /\ ~last.threw)
       => /\ last.id = MinOf(Willing(BeforeLast))
          /\ last.id # selectedHandlingChild
          /\ Extends(acts, last.preActs)
          /\ acts[Len(acts)].kind \in InitiativeActs
          /\ acts[Len(acts)].control = last.id

\* The second control handled the input and asks to confirm its value, although
\* the first control, required and empty, is willing too.
C15_Witness ==
    /\ HandledWithoutInitiative
    /\ last.id = 2
    /\ hasInitiativeAct(acts)
    /\ acts[Len(acts)].control = 2
    /\ 1 \in Willing(AfterHandler)

\* The handling control declined and the walk found the other control.
C15_WitnessWalk ==
    /\ last.op = "takeInitiative"
    /\ ~last.threw
    /\ selectedHandlingChild = 1
    /\ last.id = 2

\* The children whose canHandle returns true for the input of the turn.
WouldHandle == {c \in Controls : canHandle(Rebuilt(controls[c]), props[c], input).ret}

\* C16: the child selected by the container's canHandle is the earliest child
\* whose canHandle returns true; the siblings after it are not asked (they have
\* selected no handler); handle runs on the selected child and the acts it adds
\* are that child's.
C16_FirstMatchWins ==
    /\ phase = "decided"
       => /\ selectedHandlingChild = MinOf(WouldHandle)
          /\ \A c \in Controls :
                c > selectedHandlingChild => controls[c].handleFunc = undefined
    /\ last.op = "handle"
       => /\ last.id = selectedHandlingChild
          /\ last.func = controls[last.id].handleFunc
          /\ \A c \in Controls : c > last.id => controls[c].handleFunc = undefined
          /\ \A i \in Len(last.preActs) + 1 .. Len(acts) : acts[i].control = last.id

\* Both children accept the input; the first one handled it and the second was
\* never asked.
C16_Witness ==
    /\ last.op = "handle"
    /\ ~last.threw
    /\ last.id = 1
    /\ acts # <<>>
    /\ canHandle(Rebuilt(controls[2]), props[2], input).ret
    /\ controls[2].handleFunc = undefined

\* The names of a sequence of handlers.
NamesOf(handlers) == {handlers[i] : i \in 1 .. Len(handlers)}

\* The handlers of the control of the single-control tree whose predicate
\* accepts the input of the turn in the state ctl: the built-in ones in
\* their order, then the custom ones in registration order.
MatchingHandlers(ctl) ==
    SelectSeq(standardInputHandlers, LAMBDA n : HandlerCanHandle(n, ctl, props[1], input))
    \o SelectSeq(props[1].customHandlingFuncs,
                 LAMBDA n : HandlerCanHandle(n, ctl, props[1], input))

\* C17: when several handlers of the control match the input, canHandle
\* returns true, the handler selected and then run is the first match with the
\* built-in handlers before the custom ones and then in registration order,
\* and exactly one diagnostic is logged, naming every matching handler.
C17_HandlerConflictNonFatal ==
    /\ (last.op = "canHandle" /\ ~manager.treeThrows /\ Len(MatchingHandlers(controls[1])) > 1)
       => /\ phase = "decided"
          /\ last.ret
          /\ controls[1].handleFunc = HandleOf(MatchingHandlers(controls[1])[1])
          /\ Len(conflictLog) = 1
          /\ conflictLog[1] = MatchingHandlers(controls[1])
    /\ (last.op = "handle" /\ Len(MatchingHandlers(PreOf(1))) > 1)
       => /\ last.func = HandleOf(MatchingHandlers(PreOf(1))[1])
          /\ Len(conflictLog) = 1
          /\ NamesOf(conflictLog[1]) = NamesOf(MatchingHandlers(PreOf(1)))

\* The built-in SetWithValue and the custom SetValue both matched; the built-in
\* one ran and the diagnostic names both.
C17_Witness ==
    /\ last.op = "handle"
    /\ ~last.threw
    /\ last.func = "handleSetWithValue"
    /\ Len(conflictLog) = 1
    /\ conflictLog[1][1] = "SetWithValue"
    /\ "SetValue" \in NamesOf(conflictLog[1])
    /\ acts # <<>>
    /\ acts[1].kind = "ValueSetAct"

\* Two custom handlers and no built-in one matched: the one registered first
\* ran, here the one registered before "SetValue".
C17_WitnessCustomOrder ==
    /\ last.op = "handle"
    /\ last.func = "handleSyntheticError"
    /\ conflictLog = << <<"Exception generating handler", "SetValue">> >>

\* C18: an exception during handle (or the initiative phase), with a custom
\* handleInternalError configured, gives the response of the hook, its prompt
\* and its session flag, whatever the policy for exceptions of canHandle is:
\* neither the generic fallback nor the answer of "no handler".
C18_ScenarioE ==
    (last.op = "handle" /\ last.threw /\ manager.hook = "custom")
    => /\ phase = "done"
       /\ response.hookInvoked
       /\ response.by = "hook"
       /\ response.prompt = "custom response prompt"
       /\ response.shouldEndSession = manager.hookEndsSession
       /\ response # NoHandlerResponse
       /\ response # RethrownResponse

\* The custom handler threw during handle while the policy for canHandle is
\* "ReturnFalse"; the hook answered and keeps the session open.
C18_Witness ==
    /\ last.op = "handle"
    /\ last.threw
    /\ last.func = "handleSyntheticError"
    /\ manager.hook = "custom"
    /\ ~manager.hookEndsSession
    /\ canHandleThrowBehavior = "ReturnFalse"
    /\ response.prompt = "custom response prompt"
    /\ ~response.shouldEndSession

\* Building the tree throws, so canHandle of this turn has failed.
CanHandleFailed == manager.treeThrows /\ phase \notin {"idle", "start"}

\* C19: an exception during canHandle under the default policy: the hook is
\* invoked and the response of the turn is the hook's prompt and session flag;
\* no input handler of a control was selected or run.
C19_CanHandleExceptionGoesToHook ==
    (CanHandleFailed /\ canHandleThrowBehavior = "Handle")
    => /\ phase \in {"prepared", "done"}
       /\ last.op = "canHandle"
       /\ last.ret
       /\ response.hookInvoked
       /\ response.by = "hook"
       /\ manager.hook = "custom"
          => /\ response.prompt = "custom response prompt"
             /\ response.shouldEndSession = manager.hookEndsSession
       /\ manager.hook = "default"
          => /\ response.prompt = "generic fallback"
             /\ response.shouldEndSession
       /\ acts = <<>>
       /\ controls[1].handleFunc = undefined

\* createControlTree threw under the default policy and the turn ended with the
\* custom hook's prompt and the session ended.
C19_Witness ==
    /\ CanHandleFailed
    /\ canHandleThrowBehavior = "Handle"
    /\ phase = "done"
    /\ manager.hook = "custom"
    /\ response.prompt = "custom response prompt"
    /\ response.shouldEndSession

\* C20: an exception during canHandle under "ReturnFalse": canHandle returns
\* false, the hook is not invoked, no control handles the turn, the fallback
\* answers and the session is not ended; under "Rethrow" the exception reaches
\* the caller.
C20_ReturnFalseAndRethrow ==
    /\ (CanHandleFailed /\ canHandleThrowBehavior = "ReturnFalse")
       => /\ phase = "rejected"
          /\ last.op = "canHandle"
          /\ ~last.ret
          /\ ~last.threw
          /\ ~response.hookInvoked
          /\ response = NoHandlerResponse
          /\ ~response.shouldEndSession
          /\ acts = <<>>
          /\ controls[1].handleFunc = undefined
    /\ (CanHandleFailed /\ canHandleThrowBehavior = "Rethrow")
       => /\ phase = "error"
          /\ last.op = "canHandle"
          /\ last.threw
          /\ ~response.hookInvoked
          /\ response = RethrownResponse
          /\ acts = <<>>
          /\ controls[1].handleFunc = undefined

\* createControlTree threw under "ReturnFalse" with a custom hook configured:
\* the fallback answered.
C20_Witness ==
    /\ CanHandleFailed
    /\ canHandleThrowBehavior = "ReturnFalse"
    /\ manager.hook = "custom"
    /\ phase = "rejected"
    /\ response.prompt = "Unable to find a suitable request handler."

\* createControlTree threw under "Rethrow": the caller got the exception.
C20_WitnessRethrow ==
    /\ CanHandleFailed
    /\ canHandleThrowBehavior = "Rethrow"
    /\ phase = "error"
    /\ response.by = "caller"

\* The input names a target that control c has not registered.
ForeignTarget(c) == input.target # undefined /\ input.target \notin props[c].targets

\* C22: whatever its state, no built-in handler of a control accepts an input
\* whose target slot holds a target the control has not registered, and the
\* control is not selected to handle it.
C22_ForeignTargetNotHandled ==
    \A c \in Controls :
        ForeignTarget(c)
        => /\ \A i \in 1 .. Len(standardInputHandlers) :
                 ~HandlerCanHandle(standardInputHandlers[i], controls[c], props[c], input)
           /\ ~canHandle(Rebuilt(controls[c]), props[c], input).ret
           /\ selectedHandlingChild # c

\* "set tOther to 1" was refused by both controls: for a target of its own each
\* of them accepts this input.
C22_Witness ==
    /\ phase = "rejected"
    /\ last.op = "canHandle"
    /\ input = MkInput(ValueIntentName(SlotType), undefined, ActionSet, "tOther", SlotType, 1)
    /\ \A c \in Controls : ForeignTarget(c)
    /\ controls[1].value # noValue

\* The ControlState of every control.
ControlStates(ctls) == [c \in Controls |-> StateOf(ctls[c])]

\* Whether the sequence s extends the sequence r (possibly by nothing).
IsPrefix(r, s) == Len(r) <= Len(s) /\ SubSeq(s, 1, Len(r)) = r

\* C23: a step that changes a ControlState field of some control is a handle
\* or a takeInitiative; canHandle, canTakeInitiative and renderAct change none,
\* and renderAct only appends fragments and directives to the response
\* builder.
C23_StateMutatedOnlyByHandleAndTakeInitiative ==
    [][/\ ControlStates(controls') # ControlStates(controls) => RootHandle \/ RootTakeInitiative
       /\ (RootCanHandle \/ RootCanTakeInitiative \/ RootRenderAct)
          => ControlStates(controls') = ControlStates(controls)
       /\ RootRenderAct
          => /\ acts' = acts
             /\ IsPrefix(builder.promptFragments, builder'.promptFragments)
             /\ IsPrefix(builder.repromptFragments, builder'.repromptFragments)
             /\ IsPrefix(builder.directives, builder'.directives)
             /\ Len(builder'.promptFragments) = Len(builder.promptFragments) + 1
             /\ Len(builder'.repromptFragments) = Len(builder.repromptFragments) + 1]_vars

\* A turn in which canHandle, canTakeInitiative and renderAct all ran on
\* controls that hold state: the result of two acts is rendered.
C23_Witness ==
    /\ phase = "done"
    /\ selectedHandlingChild # noChild
    /\ selectedInitiativeChild # noChild
    /\ Len(acts) = 2
    /\ renderedActs = 2
    /\ Len(builder.promptFragments) = 2
    /\ \E c \in Controls : controls[c].value # noValue /\ controls[c].initiativeFunc # undefined

\* C24: a handler of a value-carrying input stores the value before it
\* validates: afterwards state.value is the input's value, state.previousValue
\* the value held before, state.isValueConfirmed false, and validation has
\* judged the stored value, whether it accepted or rejected it.
C24_ValueStoredBeforeValidation ==
    (last.op = "handle" /\ last.func \in ValueHandlers)
    => /\ controls[last.id].value = input.value
       /\ controls[last.id].erMatch = BoolStr(input.erMatch)
       /\ controls[last.id].previousValue = last.pre.value
       /\ controls[last.id].isValueConfirmed = FALSE
       /\ ~last.threw
          => /\ Rejected(controls[last.id], props[last.id])
                <=> (acts # <<>> /\ acts[1].kind = "InvalidValueAct")
             /\ acts # <<>>
             /\ acts[1].value = input.value

\* The control held the acceptable value 1 and "set t1 to 2" was rejected: 2 is
\* stored all the same, with 1 as the previous value.
C24_Witness ==
    /\ last.op = "handle"
    /\ last.func = "handleSetWithValue"
    /\ last.pre.value = 1
    /\ input.value = 2
    /\ controls[last.id].value = 2
    /\ controls[last.id].previousValue = 1
    /\ acts # <<>>
    /\ acts[1].kind = "InvalidValueAct"

\* The number of content acts among the acts as.
ContentCount(as) == Cardinality({i \in 1 .. Len(as) : as[i].kind \in ContentActs})

\* The last operation was a value-storing handler whose stored value passes
\* every validation function.
AcceptedValue ==
    /\ last.op = "handle"
    /\ last.func \in ValueHandlers
    /\ ~Rejected(controls[last.id], props[last.id])

\* The one content act an accepted value is reported with.
AcceptedAct ==
    IF AttemptedAction(last) = ActionSet
    THEN Act("ValueSetAct", last.id, input.value, noValue, undefined)
    ELSE Act("ValueChangedAct", last.id, input.value, last.pre.value, undefined)

\* C25 (as claimed): whenever validation accepts the stored value, exactly one
\* content act is emitted, ValueSetAct for a "set" and ValueChangedAct with the
\* previous and the new value for a "change".
C25_AcceptedValueAct_AsClaimed ==
    AcceptedValue
    => /\ ContentCount(acts) = 1
       /\ acts[1] = AcceptedAct

\* C25: when validation accepts the stored value, exactly one content act is
\* emitted, ValueSetAct for a "set" and ValueChangedAct with the previous and
\* the new value for a "change", except that a "change" on a control that held
\* no value throws and emits no act.
C25_AcceptedValueAct ==
    AcceptedValue
    => IF AttemptedAction(last) = ActionChange /\ last.pre.value = noValue
       THEN last.threw /\ acts = last.preActs
       ELSE /\ ~last.threw
            /\ ContentCount(acts) = 1
            /\ acts[1] = AcceptedAct
            /\ controls[last.id].value = input.value

\* "change t1 to 1" on a control that holds 2: the value is updated and the
\* result starts with ValueChangedAct(previous 2, new 1).
C25_Witness ==
    /\ AcceptedValue
    /\ last.func = "handleChangeWithValue"
    /\ last.pre.value = 2
    /\ controls[last.id].value = 1
    /\ acts # <<>>
    /\ acts[1].kind = "ValueChangedAct"
    /\ acts[1].previousValue = 2
    /\ acts[1].value = 1

\* C26: handling a "set" or a "change" that carries no value records that
\* action in state.elicitationAction and emits exactly one act, RequestValueAct
\* for "set" and RequestChangedValueAct for "change"; value, previousValue,
\* erMatch and isValueConfirmed stay as they were.
C26_ElicitationWithoutValue ==
    (last.op = "handle" /\ last.func \in {"handleSetWithoutValue", "handleChangeWithoutValue"})
    => /\ ~last.threw
       /\ controls[last.id].elicitationAction =
             (IF last.func = "handleSetWithoutValue" THEN ActionSet ELSE ActionChange)
       /\ Len(acts) = Len(last.preActs) + 1
       /\ SubSeq(acts, 1, Len(last.preActs)) = last.preActs
       /\ acts[Len(acts)].kind =
             (IF last.func = "handleSetWithoutValue" THEN "RequestValueAct"
              ELSE "RequestChangedValueAct")
       /\ acts[Len(acts)].control = last.id
       /\ controls[last.id].value = last.pre.value
       /\ controls[last.id].previousValue = last.pre.previousValue
       /\ controls[last.id].erMatch = last.pre.erMatch
       /\ controls[last.id].isValueConfirmed = last.pre.isValueConfirmed

\* "change t1" on a control whose value was confirmed after a "set"
\* elicitation: the value stays confirmed, the elicitation action becomes
\* "change" and the one act is RequestChangedValueAct.
C26_Witness ==
    /\ last.op = "handle"
    /\ last.func = "handleChangeWithoutValue"
    /\ last.pre.elicitationAction = ActionSet
    /\ last.pre.isValueConfirmed
    /\ last.pre.value # noValue
    /\ controls[last.id].isValueConfirmed
    /\ controls[last.id].elicitationAction = ActionChange
    /\ Len(acts) = 1
    /\ acts[1].kind = "RequestChangedValueAct"

\* C27: handling the affirmation of a confirmation question (a bare yes) sets
\* state.isValueConfirmed, leaves state.value and state.previousValue as they
\* were, and emits one ValueConfirmedAct that carries the current value.
C27_AffirmationConfirmsValue ==
    (last.op = "handle" /\ last.func = "handleConfirmationAffirmed")
    => /\ ~last.threw
       /\ controls[last.id].isValueConfirmed = TRUE
       /\ controls[last.id].value = last.pre.value
       /\ controls[last.id].previousValue = last.pre.previousValue
       /\ Len(acts) > Len(last.preActs)
       /\ acts[Len(last.preActs) + 1] =
             Act("ValueConfirmedAct", last.id, controls[last.id].value, noValue, undefined)
       /\ Cardinality({i \in 1 .. Len(acts) : acts[i].kind = "ValueConfirmedAct"}) = 1

\* A bare yes confirmed a value that had replaced another one: the value and
\* the different previous value are both kept.
C27_Witness ==
    /\ last.op = "handle"
    /\ last.func = "handleConfirmationAffirmed"
    /\ ~last.pre.isValueConfirmed
    /\ last.pre.previousValue # noValue
    /\ last.pre.previousValue # last.pre.value
    /\ controls[last.id].isValueConfirmed
    /\ controls[last.id].previousValue = last.pre.previousValue
    /\ acts # <<>>
    /\ acts[1].kind = "ValueConfirmedAct"
    /\ acts[1].value = last.pre.value

\* C28: handling the disaffirmation of a confirmation question (a bare no)
\* leaves state.isValueConfirmed false and appends exactly two acts, in this
\* order: ValueDisconfirmedAct carrying the current value, then a
\* RequestValueAct.
C28_DisaffirmationAsksAgain ==
    (last.op = "handle" /\ last.func = "handleConfirmationDisaffirmed")
    => /\ ~last.threw
       /\ last.pre.isValueConfirmed = FALSE
       /\ controls[last.id].isValueConfirmed = FALSE
       /\ controls[last.id].value = last.pre.value
       /\ acts = last.preActs \o
                   <<Act("ValueDisconfirmedAct", last.id, controls[last.id].value, noValue,
                         undefined),
                     Act("RequestValueAct", last.id, noValue, noValue, undefined)>>

\* A bare no answered the confirmation question about the value 1.
C28_Witness ==
    /\ last.op = "handle"
    /\ last.func = "handleConfirmationDisaffirmed"
    /\ issued[last.id] = "RequestValueAct"
    /\ controls[last.id].value = 1
    /\ Len(acts) = 2
    /\ acts[1].kind = "ValueDisconfirmedAct"
    /\ acts[1].value = 1
    /\ acts[2].kind = "RequestValueAct"

\* What a bare value taken as "set {value}" yields: ValueSetAct when
\* validation accepts it, InvalidValueAct and then RequestValueAct when not.
TreatedAsSet(o, before) ==
    /\ ~o.threw
    /\ Len(o.acts) > Len(before)
    /\ o.acts[Len(before) + 1].kind \in {"ValueSetAct", "InvalidValueAct"}
    /\ o.acts[Len(before) + 1].kind = "InvalidValueAct"
       => /\ Len(o.acts) = Len(before) + 2
          /\ o.acts[Len(before) + 2].kind = "RequestValueAct"

\* C29 (as claimed): a bare value handled by a control that is not asking a
\* question (here: the last initiative act it issued, if any, is not an
\* elicitation question) is treated as "set {value}".
C29_BareValueMeansSet ==
    /\ (/\ last.op = "handle"
        /\ last.func = "handleBareValue"
        /\ issued[last.id] \notin ElicitationActs)
       => TreatedAsSet([acts |-> acts, threw |-> last.threw], last.preActs)
    /\ \A c \in Controls :
          (/\ phase = "decided"
           /\ selectedHandlingChild = c
           /\ controls[c].handleFunc = "handleBareValue"
           /\ issued[c] \notin ElicitationActs)
          => TreatedAsSet(handle(controls[c], c, props[c], input, acts), acts)

\* The last operation was a handle that no successful canHandle directly
\* preceded: it follows a completed handle, a canHandle that returned false,
\* or nothing at all.
HandleWithoutSelection ==
    /\ last.op = "handle"
    /\ ~last.prevRet

\* C30 (as claimed): a handle that follows a completed handle, or a canHandle
\* that returned false, without a new successful canHandle throws the
\* dispatch-misuse error and runs no handler: the state and the acts stay as
\* they were.
C30_SelectionConsumed ==
    HandleWithoutSelection
    => /\ last.threw
       /\ acts = last.preActs
       /\ StateOf(controls[last.id]) = last.pre

\* The frames of all call stacks.
FramesOf(ts) == UNION {{ts[i][j] : j \in 1 .. Len(ts[i])} : i \in 1 .. Len(ts)}

\* The operations of the turn that have begun and not completed.
InProgress == {f.op : f \in FramesOf(tasks)} \ {"turn"}

\* What has completed when an operation of the turn may be in progress:
\* nothing for canHandle, the canHandle resolution for handle, handle for
\* canTakeInitiative, and canTakeInitiative for takeInitiative.
PhaseOf(op) ==
    CASE op = "canHandle" -> "start"
      [] op = "handle" -> "decided"
      [] op = "canTakeInitiative" -> "handled"
      [] op = "takeInitiative" -> "initiative"

\* C21: with every predicate, handler and validation suspending, the phases of
\* a turn stay strictly ordered: there is one call stack, at most one of
\* canHandle, handle, canTakeInitiative and takeInitiative is in progress on
\* the tree, handle is in progress only after the canHandle resolution has
\* completed and the initiative phase only after handle has completed; and a
\* handle that has completed has done what it does without suspensions.
C21_PhasesStrictlyOrdered ==
    /\ Len(tasks) <= 1
    /\ Cardinality(InProgress) <= 1
    /\ \A op \in InProgress : phase = PhaseOf(op)
    /\ last.op = "handle"
       => LET o == handle(PreOf(last.id), last.id, props[last.id], input, last.preActs)
          IN  /\ o.threw = last.threw
              /\ o.acts = acts
              /\ StateOf(o.ctl) = StateOf(controls[last.id])

\* handle is suspended in the validation of the value it has just stored.
C21_Witness ==
    /\ Len(tasks) = 1
    /\ Len(tasks[1]) = 5
    /\ tasks[1][2].fn = "handle"
    /\ tasks[1][3].fn \in AsyncHandleFuncs
    /\ tasks[1][4].fn = "validateAndAddActs"
    /\ tasks[1][5].fn = "evaluateValidationProp"
    /\ phase = "decided"
    /\ controls[tasks[1][2].id].value = input.value

\* The initiative phase is suspended in the validation fixInvalidValue runs,
\* after the other control has handled the input.
C21_WitnessInitiative ==
    /\ Len(tasks) = 1
    /\ Len(tasks[1]) = 5
    /\ tasks[1][2].fn = "takeInitiative"
    /\ tasks[1][2].id = 1
    /\ tasks[1][3].fn = "fixInvalidValue"
    /\ tasks[1][5].fn = "evaluateValidationProp"
    /\ phase = "initiative"
    /\ last.op = "canTakeInitiative"
    /\ acts # <<>>
    /\ acts[1].control = 2

\* C31 (as claimed): a value marked confirmed is defined and is the value of
\* the last ConfirmValueAct the control emitted, with no setValue since: a
\* value the control never asked about is never marked confirmed.
C31_ConfirmedImpliesAsked ==
    \A c \in Controls :
        controls[c].isValueConfirmed
        => /\ controls[c].value # noValue
           /\ askedToConfirm[c] = controls[c].value

\* C32 (as claimed): after a handle or takeInitiative in which the control
\* emitted an elicitation act, state.elicitationAction is "set" for a
\* RequestValueAct and "change" for a RequestChangedValueAct.
C32_ElicitationActionAgreesWithAct ==
    (/\ last.op \in {"handle", "takeInitiative"}
     /\ ~last.threw
     /\ Len(acts) > Len(last.preActs)
     /\ acts[Len(acts)].kind \in ElicitationActs
     /\ acts[Len(acts)].control = last.id)
    => controls[last.id].elicitationAction =
          (IF acts[Len(acts)].kind = "RequestValueAct" THEN ActionSet ELSE ActionChange)

\* C33 (as claimed): a RequestChangedValueAct is emitted only by a control
\* that holds a value, so the act never carries an undefined current value.
C33_ChangeRequestedOnlyWithValue ==
    \A i \in 1 .. Len(acts) :
        acts[i].kind = "RequestChangedValueAct"
        => /\ acts[i].value # noValue
           /\ controls[acts[i].control].value # noValue

\* C34 (as claimed): handle is atomic with respect to errors: whenever
\* handle throws, the control's state and the act list are the same as
\* before the call.
C34_HandleAtomicOnThrow ==
    (last.op = "handle" /\ last.threw)
    => /\ StateOf(controls[last.id]) = last.pre
       /\ acts = last.preActs

\* C35 (as claimed): clear() returns the control to the state of a freshly
\* constructed control, so canHandle (a bare yes or no included),
\* canTakeInitiative and takeInitiative behave after clear() as on a new
\* control and do not throw.
C35_ClearedEqualsNew ==
    last.op = "clear"
    => /\ StateOf(controls[1]) = StateOf(NewValueControl)
       /\ \A inp \in ApiInputs :
             LET d == canHandle(controls[1], props[1], inp)
                 n == canHandle(NewValueControl, props[1], inp)
             IN  ~d.threw /\ d.ret = n.ret

\* The control's confirmation handlers accept a bare yes or a bare no.
AcceptsConfirmationAnswer(c) ==
    \E inp \in OtherInputs :
        \/ isConfirmationAffirmed(controls[c], props[c], inp)
        \/ isConfirmationDisaffirmed(controls[c], props[c], inp)

\* Control c adds a ConfirmValueAct to the result in this step.
EmitsConfirmValueAct(c) ==
    /\ Len(acts') > Len(acts)
    /\ \E i \in (Len(acts) + 1) .. Len(acts') :
           acts'[i].control = c /\ acts'[i].kind = "ConfirmValueAct"

\* C36: a confirmation answer is consumed: once a bare yes or bare no has
\* been handled by a control, its confirmation handlers accept no further
\* yes or no, and they start accepting one again only in a step in which the
\* control emits a new ConfirmValueAct.
C36_ConfirmationAnswerConsumed ==
    [][\A c \in Controls :
          /\ (/\ last'.op = "handle"
              /\ last'.id = c
              /\ ~last'.threw
              /\ last'.func \in {"handleConfirmationAffirmed", "handleConfirmationDisaffirmed"})
             => ~AcceptsConfirmationAnswer(c)'
          /\ (~AcceptsConfirmationAnswer(c) /\ AcceptsConfirmationAnswer(c)')
             => EmitsConfirmValueAct(c)]_vars

\* A bare yes arrives after the control's confirmation question was answered
\* with yes: no control accepts it.
C36_Witness ==
    /\ phase = "rejected"
    /\ isBareYes(input)
    /\ \E c \in Controls :
          /\ controls[c].isValueConfirmed
          /\ props[c].confirmationRequired
          /\ ~AcceptsConfirmationAnswer(c)

\* A bare no answered the confirmation question, and the next turn brings
\* another bare no: no control accepts it.
C36_WitnessDisaffirmed ==
    /\ phase = "rejected"
    /\ isBareNo(input)
    /\ \E c \in Controls :
          /\ issued[c] = "RequestValueAct"
          /\ controls[c].value # noValue
          /\ props[c].confirmationRequired
          /\ ~controls[c].isValueConfirmed
          /\ ~AcceptsConfirmationAnswer(c)

\* The settled states of a control: nothing to elicit, to fix or to confirm.
Settled(st, p) ==
    \/ st.value = noValue /\ ~p.required
    \/ /\ st.value # noValue
       /\ ~Rejected(st, p)
       /\ (~p.confirmationRequired \/ st.isValueConfirmed)

\* C37: canTakeInitiative returns false exactly in the settled states; in
\* every other state it returns true and the takeInitiative that follows adds
\* exactly one initiative act, without throwing.
C37_InitiativeExactlyWhenUnsettled ==
    /\ \A c \in Controls :
          LET d == canTakeInitiative(controls[c], props[c])
              o == takeInitiative(d.ctl, c, props[c], <<>>)
          IN  /\ ~d.threw
              /\ d.ret = ~Settled(StateOf(controls[c]), props[c])
              /\ d.ret => ~o.threw /\ InitiativeCount(o.acts) = 1
    /\ phase = "initiative"
       => ~Settled(StateOf(controls[selectedInitiativeChild]), props[selectedInitiativeChild])
    /\ (phase = "done" /\ last.op = "handle" /\ ~hasInitiativeAct(acts))
       => \A c \in Controls : Settled(StateOf(controls[c]), props[c])
    /\ (last.op = "takeInitiative")
       => /\ ~last.threw
          /\ ~Settled(last.pre, props[last.id])
          /\ InitiativeCount(acts) = InitiativeCount(last.preActs) + 1

\* takeInitiative ran on a control holding a rejected value: the feedback act
\* and one initiative act were added.
C37_Witness ==
    /\ last.op = "takeInitiative"
    /\ last.func = "fixInvalidValue"
    /\ Len(acts) = Len(last.preActs) + 2
    /\ InitiativeCount(acts) = 1

\* canTakeInitiative declined on every control: the turn ends without an
\* initiative act while one control holds a confirmed value.
C37_WitnessSettled ==
    /\ phase = "done"
    /\ last.op = "handle"
    /\ ~hasInitiativeAct(acts)
    /\ \E c \in Controls :
          /\ props[c].confirmationRequired
          /\ controls[c].isValueConfirmed
          /\ Settled(StateOf(controls[c]), props[c])

\* The built-in handlers of the control whose predicate accepts the input.
BuiltInMatches(ctl, p, inp) ==
    {k \in 1 .. Len(standardInputHandlers) :
        HandlerCanHandle(standardInputHandlers[k], ctl, p, inp)}

BuiltInNames == {standardInputHandlers[k] : k \in 1 .. Len(standardInputHandlers)}

\* C38: provided the "set" and "change" action id lists are disjoint, for
\* every control state and every input at most one of the seven built-in
\* predicates returns true, so a logged handler conflict names at most one
\* built-in handler and at least one custom handler.
C38_BuiltInsMutuallyExclusive ==
    /\ \A c \in Controls :
          props[c].actionsSet \cap props[c].actionsChange = {}
          => \A inp \in Inputs :
                Cardinality(BuiltInMatches(controls[c], props[c], inp)) <= 1
    /\ \A k \in 1 .. Len(conflictLog) :
          /\ Cardinality({j \in 1 .. Len(conflictLog[k]) :
                             conflictLog[k][j] \in BuiltInNames}) <= 1
          /\ \E j \in 1 .. Len(conflictLog[k]) : conflictLog[k][j] \notin BuiltInNames

\* canHandle logged a conflict between one built-in handler and a custom
\* handler, on an input naming an action and a value.
C38_Witness ==
    /\ last.op = "canHandle"
    /\ Len(conflictLog) = 1
    /\ Cardinality(BuiltInMatches(controls[1], props[1], input)) = 1
    /\ Len(conflictLog[1]) >= 2
    /\ input.action # undefined
    /\ input.value # noValue

\* The first control holds a confirmed value and wants no initiative.
ConfirmedAndSettled ==
    /\ controls[1].value # noValue
    /\ controls[1].isValueConfirmed
    /\ ~canTakeInitiative(controls[1], props[1]).ret

\* C39: once the required, confirmation-requiring control has asked, a user
\* who answers its last initiative act cooperatively every turn eventually
\* brings it to a defined, confirmed value with canTakeInitiative false, and
\* canTakeInitiative stays false while the value is not changed.
C39_CooperativeDialogConfirms ==
    /\ (issued[1] # undefined) ~> ConfirmedAndSettled
    /\ [][(ConfirmedAndSettled /\ controls'[1].value = controls[1].value)
          => ConfirmedAndSettled']_vars

\* The value was asked for, given and confirmed; the user's next yes finds
\* nothing to answer and changes nothing.
C39_Witness ==
    /\ ConfirmedAndSettled
    /\ issued[1] = "ConfirmValueAct"
    /\ phase = "rejected"
    /\ isBareYes(input)

\* C40 (as claimed): renderAct adds, for every act it renders, the prompt and
\* the reprompt configured under the key of the act's kind, one fragment of
\* each per act.
C40_PromptAndRepromptUnderSameKey ==
    /\ Len(builder.promptFragments) = renderedActs
    /\ Len(builder.repromptFragments) = renderedActs
    /\ \A k \in 1 .. renderedActs :
          /\ builder.promptFragments[k] =
                evaluatePromptProp("prompts", PromptKey(acts[k].kind))
          /\ builder.repromptFragments[k] =
                evaluatePromptProp("reprompts", PromptKey(acts[k].kind))

====
